---- MODULE Spec2Model ----
(***************************************************************************)
(* News platform backend: signup / login (AuthService) and ownership-gated *)
(* article CRUD (ArticlesService, ArticlesRepository) over a relational     *)
(* store.  Strings the code inspects character by character are sequences  *)
(* of one-character strings; opaque strings (messages, enum members) are   *)
(* TLA+ strings.                                                           *)
(***************************************************************************)
EXTENDS Integers, Sequences, FiniteSets, TLC

VARIABLES users, articles, clock, req, resp

vars == <<users, articles, clock, req, resp>>

----------------------------------------------------------------------------
(* Bounds of the model *)

\* number of HTTP requests that may be in flight at the same time
MaxInFlight == 2
\* rows the user table may hold before further signups are refused by the model
MaxUsers == 3

Slots == 1..MaxInFlight

----------------------------------------------------------------------------
(* Characters and strings *)

UpperLetters == <<"A","B","C","D","E","F","G","H","I","J","K","L","M",
                  "N","O","P","Q","R","S","T","U","V","W","X","Y","Z">>
LowerLetters == <<"a","b","c","d","e","f","g","h","i","j","k","l","m",
                  "n","o","p","q","r","s","t","u","v","w","x","y","z">>
DigitChars == {"0","1","2","3","4","5","6","7","8","9"}

IsUpper(c) == \E i \in 1..26 : UpperLetters[i] = c
IsLower(c) == \E i \in 1..26 : LowerLetters[i] = c
IsLetter(c) == IsUpper(c) \/ IsLower(c)
IsDigit_orBang(c) == c \in DigitChars \cup {"!"}
IsDigit(c) == c \in DigitChars
IsSpace(c) == c \in {" ", "\t", "\n"}

toLowerCaseChar(c) ==
  IF IsUpper(c) THEN LowerLetters[CHOOSE i \in 1..26 : UpperLetters[i] = c] ELSE c
toUpperCaseChar(c) ==
  IF IsLower(c) THEN UpperLetters[CHOOSE i \in 1..26 : LowerLetters[i] = c] ELSE c

toLowerCase(s) == [i \in 1..Len(s) |-> toLowerCaseChar(s[i])]
toUpperCase(s) == [i \in 1..Len(s) |-> toUpperCaseChar(s[i])]

\* String.prototype.trim
trim(s) ==
  LET keep == {i \in 1..Len(s) : ~IsSpace(s[i])}
  IN IF keep = {} THEN <<>>
     ELSE SubSeq(s, CHOOSE i \in keep : \A j \in keep : i <= j,
                    CHOOSE i \in keep : \A j \in keep : i >= j)

\* value.replace(/\s+/g, ' ')
RECURSIVE collapseWhitespace(_)
collapseWhitespace(s) ==
  IF s = <<>> THEN <<>>
  ELSE IF IsSpace(Head(s))
       THEN IF Len(s) > 1 /\ IsSpace(s[2])
            THEN collapseWhitespace(Tail(s))
            ELSE <<" ">> \o collapseWhitespace(Tail(s))
       ELSE <<Head(s)>> \o collapseWhitespace(Tail(s))

STR_author == <<"a","u","t","h","o","r">>
STR_reader == <<"r","e","a","d","e","r">>
STR_Author == <<"A","u","t","h","o","r">>
STR_Reader == <<"R","e","a","d","e","r">>

----------------------------------------------------------------------------
(* Signup DTO: transforms and validation rules *)

normalizeName_trimOnly(value) == trim(value)
normalizeName(value) == collapseWhitespace(trim(value))

normalizeEmail_caseKept(value) == trim(value)
normalizeEmail(value) == toLowerCase(trim(value))

normalizeRole(value) ==
  LET trimmed == trim(value)
  IN IF trimmed = <<>> THEN <<>>
     ELSE <<toUpperCaseChar(trimmed[1])>> \o toLowerCase(Tail(trimmed))

ALLOWED_ROLES == {STR_Author, STR_Reader}

\* /^[A-Za-z]+(?:\s[A-Za-z]+)*$/
MatchesNamePattern(s) ==
  /\ Len(s) >= 1
  /\ IsLetter(s[1]) /\ IsLetter(s[Len(s)])
  /\ \A i \in 1..Len(s) : IsLetter(s[i]) \/ IsSpace(s[i])
  /\ \A i \in 1..(Len(s) - 1) : ~(IsSpace(s[i]) /\ IsSpace(s[i + 1]))

\* IsEmail: one "@" between a non-empty local part and a dotted domain, no blanks
IsEmail(s) ==
  /\ Cardinality({i \in 1..Len(s) : s[i] = "@"}) = 1
  /\ \A i \in 1..Len(s) : ~IsSpace(s[i])
  /\ LET at == CHOOSE i \in 1..Len(s) : s[i] = "@"
     IN /\ at > 1
        /\ \E d \in (at + 2)..(Len(s) - 1) : s[d] = "."
        /\ s[Len(s)] # "." /\ s[at + 1] # "."

NAME_MAX_LENGTH == 120
EMAIL_MAX_LENGTH == 320
PASSWORD_MIN_LENGTH == 8
PASSWORD_MAX_LENGTH == 72

\* the messages of the violated rules of SignupDto, for an already transformed payload
SignupValidationErrors(dto) ==
  (IF dto.name = <<>> THEN {"name is required."} ELSE {})
  \cup (IF ~MatchesNamePattern(dto.name)
        THEN {"name must contain only alphabets and single spaces."} ELSE {})
  \cup (IF Len(dto.name) > NAME_MAX_LENGTH
        THEN {"name must not exceed 120 characters."} ELSE {})
  \cup (IF dto.email = <<>> THEN {"email is required."} ELSE {})
  \cup (IF ~IsEmail(dto.email) THEN {"email must be a valid email address."} ELSE {})
  \cup (IF Len(dto.email) > EMAIL_MAX_LENGTH
        THEN {"email must not exceed 320 characters."} ELSE {})
  \cup (IF dto.password = <<>> THEN {"password is required."} ELSE {})
  \cup (IF Len(dto.password) < PASSWORD_MIN_LENGTH
        THEN {"password must be at least 8 characters long."} ELSE {})
  \cup (IF Len(dto.password) > PASSWORD_MAX_LENGTH
        THEN {"password must not exceed 72 characters for bcrypt compatibility."}
        ELSE {})
  \cup (IF ~\E i \in 1..Len(dto.password) : IsUpper(dto.password[i])
        THEN {"password must contain at least one uppercase letter."} ELSE {})
  \cup (IF ~\E i \in 1..Len(dto.password) : IsLower(dto.password[i])
        THEN {"password must contain at least one lowercase letter."} ELSE {})
  \cup (IF ~\E i \in 1..Len(dto.password) : IsDigit(dto.password[i])
        THEN {"password must contain at least one number."} ELSE {})
  \cup (IF ~\E i \in 1..Len(dto.password) :
              ~IsLetter(dto.password[i]) /\ ~IsDigit(dto.password[i])
        THEN {"password must contain at least one special character."} ELSE {})
  \cup (IF dto.role = <<>> THEN {"role is required."} ELSE {})
  \cup (IF dto.role \notin ALLOWED_ROLES
        THEN {"role must be either 'Author' or 'Reader'."} ELSE {})

\* class-transformer applies the @Transform of every property
TransformSignup(raw) ==
  [name |-> normalizeName(raw.name), email |-> normalizeEmail(raw.email),
   password |-> raw.password, role |-> normalizeRole(raw.role)]

----------------------------------------------------------------------------
(* bcrypt *)

BCRYPT_SALT_ROUNDS == 12

\* salts bcrypt may draw
Salts == {"k", "m"}

BcryptPrefix(rounds, salt) == <<"$", "2", "b", "$", ToString(rounds), "$", salt>>

RECURSIVE Reverse(_)
Reverse(s) == IF s = <<>> THEN <<>> ELSE Reverse(Tail(s)) \o <<Head(s)>>

\* bcrypt.hash(data, rounds) with the salt it generated: a salted one-way digest,
\* represented by the mirrored input behind the algorithm, cost and salt
bcryptHash(data, rounds, salt) == BcryptPrefix(rounds, salt) \o Reverse(data)

\* bcrypt.compare(data, encrypted): re-hash with the cost and salt read from `encrypted`
bcryptCompare(data, encrypted) ==
  /\ Len(encrypted) >= 7
  /\ SubSeq(encrypted, 1, 4) = <<"$", "2", "b", "$">>
  /\ encrypted = SubSeq(encrypted, 1, 7) \o Reverse(data)

----------------------------------------------------------------------------
(* The user table (Prisma client over the relational store) *)

Null == [null |-> TRUE]

\* prisma.user.findUnique({ where: { email } })
prisma_user_findUnique(store, email) ==
  IF \E u \in store : u.email = email
  THEN CHOOSE u \in store : u.email = email
  ELSE Null

\* id the store gives the next row
NewUserId(store) == Cardinality(store) + 1

prisma_user_create_noUnique(store, data, dbUp) ==
  IF ~dbUp THEN [error |-> "P1001", user |-> Null, store |-> store]
  ELSE LET row == [id |-> NewUserId(store), name |-> data.name, email |-> data.email,
                   password |-> data.password, role |-> data.role]
       IN [error |-> "none", user |-> row, store |-> store \cup {row}]

\* prisma.user.create({ data }): one atomic insert; email carries a unique
\* constraint, whose violation is reported as error code P2002
prisma_user_create(store, data, dbUp) ==
  IF ~dbUp THEN [error |-> "P1001", user |-> Null, store |-> store]
  ELSE IF \E u \in store : u.email = data.email
       THEN [error |-> "P2002", user |-> Null, store |-> store]
       ELSE LET row == [id |-> NewUserId(store), name |-> data.name,
                        email |-> data.email, password |-> data.password,
                        role |-> data.role]
            IN [error |-> "none", user |-> row, store |-> store \cup {row}]

----------------------------------------------------------------------------
(* AuthService *)

EMAIL_ALREADY_EXISTS_ERROR == "Email already exists."
INVALID_CREDENTIALS_ERROR == "Invalid email or password."
SIGNUP_GENERIC_ERROR == "Unable to create account at the moment. Please try again later."
LOGIN_GENERIC_ERROR == "Unable to log in at the moment. Please try again later."

ErrorResponse(status, message) ==
  [status |-> status, body |-> [Success |-> FALSE, Errors |-> <<message>>]]

buildEmailConflictException == ErrorResponse(409, EMAIL_ALREADY_EXISTS_ERROR)

buildInvalidCredentialsException == ErrorResponse(401, INVALID_CREDENTIALS_ERROR)

isUniqueConstraintViolation_otherCode(error) == error = "P2003"
isUniqueConstraintViolation(error) == error = "P2002"

mapSignupRoleToPrismaRole(role) == IF role = STR_author THEN "AUTHOR" ELSE "READER"

mapPrismaRoleToApiRole(role) == IF role = "AUTHOR" THEN STR_author ELSE STR_reader

\* signup, up to the existence check: TRUE when the request is rejected as a conflict
SignupEmailTaken(store, payload) ==
  prisma_user_findUnique(store, payload.email) # Null

SignupPasswordHash_plaintext(payload, salt) == payload.password
\* bcrypt.hash(payload.password, BCRYPT_SALT_ROUNDS)
SignupPasswordHash(payload, salt) ==
  bcryptHash(payload.password, BCRYPT_SALT_ROUNDS, salt)

SignupPersist_leaksError(store, payload, salt, dbUp) ==
  LET created == prisma_user_create(store,
                   [name |-> payload.name, email |-> payload.email,
                    password |-> SignupPasswordHash(payload, salt),
                    role |-> mapSignupRoleToPrismaRole(payload.role)], dbUp)
  IN [store |-> created.store,
      storeError |-> created.error,
      response |->
        IF created.error = "none"
        THEN [status |-> 201,
              body |-> [Success |-> TRUE,
                        Data |-> [id |-> created.user.id, name |-> created.user.name,
                                  email |-> created.user.email,
                                  role |-> mapPrismaRoleToApiRole(created.user.role)]]]
        ELSE IF isUniqueConstraintViolation(created.error)
             THEN buildEmailConflictException
             ELSE ErrorResponse(500, created.error)]

\* signup, from the hash to the response: the insert and the mapping of its outcome
SignupPersist(store, payload, salt, dbUp) ==
  LET passwordHash == SignupPasswordHash(payload, salt)
      created == prisma_user_create(store,
                   [name |-> payload.name, email |-> payload.email,
                    password |-> passwordHash,
                    role |-> mapSignupRoleToPrismaRole(payload.role)], dbUp)
      createdUser == created.user
  IN [store |-> created.store,
      storeError |-> created.error,
      response |->
        IF created.error = "none"
        THEN [status |-> 201,
              body |-> [Success |-> TRUE,
                        Data |-> [id |-> createdUser.id, name |-> createdUser.name,
                                  email |-> createdUser.email,
                                  role |-> mapPrismaRoleToApiRole(createdUser.role)]]]
        ELSE IF isUniqueConstraintViolation(created.error)
             THEN buildEmailConflictException
             ELSE ErrorResponse(500, SIGNUP_GENERIC_ERROR)]

\* jwtService.signAsync(payload): the signed token carries the payload
signAsync(payload) == [payload |-> payload, signed |-> TRUE]

LoginOutcome_revealsAccount(store, payload, signOk) ==
  LET user == prisma_user_findUnique(store, payload.email)
  IN IF user = Null
     THEN [response |-> ErrorResponse(404, "User not found."), signCalls |-> 0]
     ELSE IF ~bcryptCompare(payload.password, user.password)
          THEN [response |-> buildInvalidCredentialsException, signCalls |-> 0]
          ELSE IF signOk
               THEN [response |->
                       [status |-> 201,
                        body |-> [Success |-> TRUE,
                                  Data |-> [accessToken |->
                                    signAsync([sub |-> user.id,
                                               role |-> mapPrismaRoleToApiRole(user.role)])]]],
                     signCalls |-> 1]
               ELSE [response |-> ErrorResponse(500, LOGIN_GENERIC_ERROR), signCalls |-> 1]

LoginOutcome_skipsCompare(store, payload, signOk) ==
  LET user == prisma_user_findUnique(store, payload.email)
  IN IF user = Null
     THEN [response |-> buildInvalidCredentialsException, signCalls |-> 0]
     ELSE IF signOk
          THEN [response |->
                  [status |-> 201,
                   body |-> [Success |-> TRUE,
                             Data |-> [accessToken |->
                               signAsync([sub |-> user.id,
                                          role |-> mapPrismaRoleToApiRole(user.role)])]]],
                signCalls |-> 1]
          ELSE [response |-> ErrorResponse(500, LOGIN_GENERIC_ERROR), signCalls |-> 1]

\* login: lookup, hash comparison, token signing; signOk is whether the signer succeeds
LoginOutcome(store, payload, signOk) ==
  LET user == prisma_user_findUnique(store, payload.email)
  IN IF user = Null
     THEN [response |-> buildInvalidCredentialsException, signCalls |-> 0]
     ELSE IF ~bcryptCompare(payload.password, user.password)
          THEN [response |-> buildInvalidCredentialsException, signCalls |-> 0]
          ELSE IF signOk
               THEN [response |->
                       [status |-> 201,
                        body |-> [Success |-> TRUE,
                                  Data |-> [accessToken |->
                                    signAsync([sub |-> user.id,
                                               role |-> mapPrismaRoleToApiRole(user.role)])]]],
                     signCalls |-> 1]
               ELSE [response |-> ErrorResponse(500, LOGIN_GENERIC_ERROR), signCalls |-> 1]

----------------------------------------------------------------------------
(* Requests the model submits *)

EMAIL_a == <<"a", "@", "x", ".", "y">>
EMAIL_A_padded == <<" ", "A", "@", "x", ".", "y">>
EMAIL_b == <<"b", "@", "x", ".", "y">>
EMAIL_none == <<"c", "@", "x", ".", "y">>

PASSWORD_1 == <<"A", "b", "c", "d", "e", "f", "1", "!">>
PASSWORD_2 == <<"Z", "y", "x", "w", "v", "u", "9", "?">>

Signup(name, email, password, role) ==
  [name |-> name, email |-> email, password |-> password, role |-> role]

\* signup bodies: the same address in two spellings, a second address, and one
\* body that breaks several rules
RawSignups ==
  {Signup(<<"J", "o">>, EMAIL_a, PASSWORD_1, STR_author),
   Signup(<<"J", "o">>, EMAIL_A_padded, PASSWORD_2, STR_Reader),
   Signup(<<"A", "l">>, EMAIL_b, PASSWORD_2, STR_author),
   Signup(<<"A", "l">>, EMAIL_b, PASSWORD_1, STR_reader),
   Signup(<<"1", "2", "3">>, <<"x">>, <<"w", "e", "a", "k">>,
          <<"a", "d", "m", "i", "n">>)}

LoginPayloads ==
  {[email |-> EMAIL_a, password |-> PASSWORD_1],
   [email |-> EMAIL_a, password |-> PASSWORD_2],
   [email |-> EMAIL_b, password |-> PASSWORD_2],
   [email |-> EMAIL_none, password |-> PASSWORD_1]}

----------------------------------------------------------------------------
(* State *)

Idle == [op |-> "idle"]
NoResponse == [op |-> "none"]

\* the response a step sends, with the request it answers
Sent(op, request, outcome) ==
  [op |-> op, request |-> request,
   status |-> outcome.response.status, body |-> outcome.response.body,
   storeError |-> outcome.storeError, createCalls |-> outcome.createCalls,
   signCalls |-> outcome.signCalls]

\* the slot a new request takes: the lowest one that is free (0 when none is)
FreeSlot ==
  IF \E s \in Slots : req[s] = Idle
  THEN CHOOSE s \in Slots : req[s] = Idle /\ \A t \in Slots : req[t] = Idle => s <= t
  ELSE 0

Init ==
  /\ users = {}
  /\ articles = {}
  /\ clock = 1
  /\ req = [s \in Slots |-> Idle]
  /\ resp = NoResponse

----------------------------------------------------------------------------
(* POST /auth/signup *)

\* ValidationPipe, then AuthService.signup up to the existence check
SignupCheck(s) ==
  /\ s = FreeSlot
  /\ Cardinality(users) < MaxUsers
  /\ \E raw \in RawSignups :
       LET dto == TransformSignup(raw)
           errors == SignupValidationErrors(dto)
       IN IF errors # {}
          THEN /\ resp' = Sent("signup", raw,
                     [response |-> [status |-> 400,
                                    body |-> [Success |-> FALSE, Errors |-> errors]],
                      storeError |-> "none", createCalls |-> 0, signCalls |-> 0])
               /\ req' = req
          ELSE IF SignupEmailTaken(users, dto)
               THEN /\ resp' = Sent("signup", raw,
                          [response |-> buildEmailConflictException,
                           storeError |-> "none", createCalls |-> 0, signCalls |-> 0])
                    /\ req' = req
               ELSE /\ req' = [req EXCEPT ![s] =
                                 [op |-> "signup", raw |-> raw, payload |-> dto]]
                    /\ resp' = NoResponse
  /\ UNCHANGED <<users, articles, clock>>

\* AuthService.signup from the hash on: hash, insert, response
SignupCreate(s) ==
  /\ req[s].op = "signup"
  /\ \E salt \in Salts, dbUp \in BOOLEAN :
       LET done == SignupPersist(users, req[s].payload, salt, dbUp)
       IN /\ users' = done.store
          /\ resp' = Sent("signup", req[s].raw,
                          [response |-> done.response, storeError |-> done.storeError,
                           createCalls |-> 1, signCalls |-> 0])
  /\ req' = [req EXCEPT ![s] = Idle]
  /\ UNCHANGED <<articles, clock>>

(* POST /auth/login *)

\* AuthService.login; its one access to the store is the lookup, so the handler
\* is one step
Login(s) ==
  /\ s = FreeSlot
  /\ \E payload \in LoginPayloads, signOk \in BOOLEAN :
       LET done == LoginOutcome(users, payload, signOk)
       IN resp' = Sent("login", payload,
                       [response |-> done.response, storeError |-> "none",
                        createCalls |-> 0, signCalls |-> done.signCalls])
  /\ UNCHANGED <<users, articles, clock, req>>

NextAuth ==
  \E s \in Slots : SignupCheck(s) \/ SignupCreate(s) \/ Login(s)

Spec == Init /\ [][NextAuth]_vars

----------------------------------------------------------------------------
(* The article table (ArticlesRepository over the Prisma client) *)

\* deletedAt of an article that is not deleted (null)
NULL_DATE == 0

\* latest instant the clock reaches
MaxTime == 2
\* rows the article table may hold
MaxArticles == 1

ArticleStatus == {"Draft", "Published"}

Has(object, field) == field \in DOMAIN object

NewArticleId(store) == Cardinality(store) + 1

\* ArticlesRepository.create: status defaults to Draft; id and createdAt are
\* filled in by the store, createdAt in the order of insertion
repository_create(store, data) ==
  LET row == [id |-> NewArticleId(store), title |-> data.title,
              content |-> data.content, category |-> data.category,
              authorId |-> data.authorId,
              status |-> IF Has(data, "status") THEN data.status ELSE "Draft",
              createdAt |-> NewArticleId(store), deletedAt |-> NULL_DATE]
  IN [article |-> row, store |-> store \cup {row}]

repository_findById_includingDeleted(store, id) ==
  IF \E a \in store : a.id = id
  THEN CHOOSE a \in store : a.id = id
  ELSE Null

\* ArticlesRepository.findById(id): soft-deleted rows are excluded
repository_findById(store, id) ==
  IF \E a \in store : a.id = id /\ a.deletedAt = NULL_DATE
  THEN CHOOSE a \in store : a.id = id /\ a.deletedAt = NULL_DATE
  ELSE Null

\* prisma.article.update({ where: { id }, data }): the fields given in data are
\* set on the row with that id, whatever its deletedAt; P2025 when there is none
prisma_article_update(store, id, data, dbUp) ==
  IF ~dbUp THEN [error |-> "P1001", article |-> Null, store |-> store]
  ELSE IF ~\E a \in store : a.id = id
       THEN [error |-> "P2025", article |-> Null, store |-> store]
       ELSE LET old == CHOOSE a \in store : a.id = id
                new == [f \in DOMAIN old |-> IF Has(data, f) THEN data[f] ELSE old[f]]
            IN [error |-> "none", article |-> new,
                store |-> (store \ {old}) \cup {new}]

repository_update_blanksContent(store, id, data, dbUp) ==
  prisma_article_update(store, id,
    [f \in DOMAIN data \cup {"content"} |-> IF Has(data, f) THEN data[f] ELSE ""],
    dbUp)

\* ArticlesRepository.update
repository_update(store, id, data, dbUp) == prisma_article_update(store, id, data, dbUp)

repository_softDelete_dropsRow(store, id, now, dbUp) ==
  LET found == prisma_article_update(store, id, [deletedAt |-> now], dbUp)
  IN [error |-> found.error, article |-> found.article,
      store |-> {a \in store : found.error = "none" => a.id # id}]

\* ArticlesRepository.softDelete
repository_softDelete(store, id, now, dbUp) ==
  prisma_article_update(store, id, [deletedAt |-> now], dbUp)

\* orderBy: { createdAt: 'desc' }
RECURSIVE newestFirst(_)
newestFirst(rows) ==
  IF rows = {} THEN <<>>
  ELSE LET top == CHOOSE a \in rows : \A b \in rows : b.createdAt <= a.createdAt
       IN <<top>> \o newestFirst(rows \ {top})

repository_findByAuthor_anyAuthor(store, authorId) ==
  newestFirst({a \in store : a.deletedAt = NULL_DATE})

\* ArticlesRepository.findByAuthor(authorId): soft-deleted rows are excluded
repository_findByAuthor(store, authorId) ==
  newestFirst({a \in store : a.authorId = authorId /\ a.deletedAt = NULL_DATE})

\* { contains: needle }
Contains(hay, needle) ==
  \E i \in 0..(Len(hay) - Len(needle)) : SubSeq(hay, i + 1, i + Len(needle)) = needle

\* { contains: needle, mode: 'insensitive' }
containsInsensitive(hay, needle) == Contains(toLowerCase(hay), toLowerCase(needle))

\* Math.ceil(total / size)
totalPages(total, size) == (total + size - 1) \div size

\* if (category): the option is given and not empty
HasCategory(options) == Has(options, "category") /\ options.category # ""

\* if (author), if (search): the option is given and not empty
HasText(options, field) == Has(options, field) /\ options[field] # <<>>

FeedWhere_includesDeleted(store, userTable, options) ==
  {a \in store :
     /\ a.status = "Published"
     /\ HasCategory(options) => a.category = options.category
     /\ HasText(options, "author")
          => \E u \in userTable :
               u.id = a.authorId /\ containsInsensitive(u.name, options.author)
     /\ HasText(options, "search") => containsInsensitive(a.title, options.search)}

FeedWhere_includesDrafts(store, userTable, options) ==
  {a \in store :
     /\ a.deletedAt = NULL_DATE
     /\ HasCategory(options) => a.category = options.category
     /\ HasText(options, "author")
          => \E u \in userTable :
               u.id = a.authorId /\ containsInsensitive(u.name, options.author)
     /\ HasText(options, "search") => containsInsensitive(a.title, options.search)}

FeedWhere_anyFilter(store, userTable, options) ==
  {a \in store :
     /\ a.status = "Published"
     /\ a.deletedAt = NULL_DATE
     /\ \/ ~HasCategory(options) /\ ~HasText(options, "author")
             /\ ~HasText(options, "search")
        \/ HasCategory(options) /\ a.category = options.category
        \/ HasText(options, "author")
             /\ \E u \in userTable :
                  u.id = a.authorId /\ containsInsensitive(u.name, options.author)
        \/ HasText(options, "search") /\ containsInsensitive(a.title, options.search)}

\* the where clause of ArticlesRepository.findPublished
FeedWhere(store, userTable, options) ==
  {a \in store :
     /\ a.status = "Published"
     /\ a.deletedAt = NULL_DATE
     /\ HasCategory(options) => a.category = options.category
     /\ HasText(options, "author")
          => \E u \in userTable :
               u.id = a.authorId /\ containsInsensitive(u.name, options.author)
     /\ HasText(options, "search") => containsInsensitive(a.title, options.search)}

SkipTake_fromPage(rows, skip, take) ==
  SubSeq(rows, skip + take + 1,
         IF skip + 2 * take < Len(rows) THEN skip + 2 * take ELSE Len(rows))

\* findMany({ skip, take }) over the ordered rows
SkipTake(rows, skip, take) ==
  SubSeq(rows, skip + 1, IF skip + take < Len(rows) THEN skip + take ELSE Len(rows))

\* ArticlesRepository.findPublished
repository_findPublished(store, userTable, options) ==
  LET where == FeedWhere(store, userTable, options)
      total == Cardinality(where)
  IN [items |-> SkipTake(newestFirst(where), (options.page - 1) * options.size,
                         options.size),
      total |-> total, page |-> options.page, size |-> options.size,
      totalPages |-> totalPages(total, options.size)]

----------------------------------------------------------------------------
(* Article DTOs *)

\* the messages of the violated rules of CreateArticleDto
CreateArticleValidationErrors(dto) ==
  (IF ~Has(dto, "title") \/ (Has(dto, "title") /\ dto.title = <<>>)
   THEN {"title is required."} ELSE {})
  \cup (IF ~Has(dto, "content") \/ (Has(dto, "content") /\ dto.content = "")
        THEN {"content is required."} ELSE {})
  \cup (IF ~Has(dto, "category") \/ (Has(dto, "category") /\ dto.category = "")
        THEN {"category is required."} ELSE {})
  \cup (IF ~Has(dto, "status") \/ (Has(dto, "status") /\ dto.status \notin ArticleStatus)
        THEN {"status must be either 'Draft' or 'Published'."} ELSE {})

\* the messages of the violated rules of UpdateArticleDto: every field is optional
UpdateArticleValidationErrors(dto) ==
  (IF Has(dto, "title") /\ dto.title = <<>>
   THEN {"title must be at least 1 character(s)."} ELSE {})
  \cup (IF Has(dto, "content") /\ dto.content = ""
        THEN {"content must be at least 1 character(s)."} ELSE {})
  \cup (IF Has(dto, "status") /\ dto.status \notin ArticleStatus
        THEN {"status must be either 'Draft' or 'Published'."} ELSE {})

----------------------------------------------------------------------------
(* ArticlesService *)

ARTICLE_NOT_FOUND_MESSAGE == "Article not found."
FORBIDDEN_MESSAGE == "Forbidden"
ARTICLE_CREATE_ERROR_MESSAGE ==
  "Unable to create article at the moment. Please try again later."
ARTICLE_UPDATE_ERROR_MESSAGE ==
  "Unable to update article at the moment. Please try again later."
ARTICLE_DELETE_ERROR_MESSAGE ==
  "Unable to delete article at the moment. Please try again later."

ApiError(status, message) ==
  [status |-> status,
   body |-> [Success |-> FALSE, Message |-> message, Object |-> Null,
             Errors |-> <<message>>]]

ApiSuccess(status, message, object) ==
  [status |-> status,
   body |-> [Success |-> TRUE, Message |-> message, Object |-> object,
             Errors |-> Null]]

mapToResponseData(article) ==
  [id |-> article.id, title |-> article.title, content |-> article.content,
   category |-> article.category, status |-> article.status,
   authorId |-> article.authorId, createdAt |-> article.createdAt,
   deletedAt |-> article.deletedAt]

ArticleAccess_noOwnerCheck(store, articleId, requestingAuthorId) ==
  LET article == repository_findById(store, articleId)
  IN IF article = Null THEN ApiError(404, ARTICLE_NOT_FOUND_MESSAGE) ELSE Null

\* the lookup and the two checks that open findOne, update and remove: the
\* exception thrown, or Null when the request may go on
ArticleAccess(store, articleId, requestingAuthorId) ==
  LET article == repository_findById(store, articleId)
  IN IF article = Null
     THEN ApiError(404, ARTICLE_NOT_FOUND_MESSAGE)
     ELSE IF article.authorId # requestingAuthorId
          THEN ApiError(403, FORBIDDEN_MESSAGE)
          ELSE Null

\* ArticlesService.create
service_create(store, authorId, payload, dbUp) ==
  IF ~dbUp
  THEN [store |-> store, response |-> ApiError(500, ARTICLE_CREATE_ERROR_MESSAGE)]
  ELSE LET created == repository_create(store,
                        [f \in (DOMAIN payload \cap {"title", "content", "category", "status"})
                           \cup {"authorId"} |->
                             IF f = "authorId" THEN authorId ELSE payload[f]])
       IN [store |-> created.store,
           response |-> ApiSuccess(201, "Article created successfully.",
                                   mapToResponseData(created.article))]

\* ArticlesService.findOne
service_findOne(store, articleId, requestingAuthorId) ==
  LET denied == ArticleAccess(store, articleId, requestingAuthorId)
  IN IF denied # Null THEN denied
     ELSE ApiSuccess(200, "Article retrieved successfully.",
                     mapToResponseData(repository_findById(store, articleId)))

service_update_write_reassigns(store, articleId, payload, dbUp) ==
  LET updated == repository_update(store, articleId,
                   [f \in (DOMAIN payload \cap {"title", "content", "category", "status"})
                      \cup {"authorId"} |->
                        IF f = "authorId" THEN 0 ELSE payload[f]], dbUp)
  IN [store |-> updated.store,
      response |-> IF updated.error = "none"
                   THEN ApiSuccess(200, "Article updated successfully.",
                                   mapToResponseData(updated.article))
                   ELSE ApiError(500, ARTICLE_UPDATE_ERROR_MESSAGE)]

\* ArticlesService.update after its checks: the write and its response
service_update_write(store, articleId, payload, dbUp) ==
  LET updated == repository_update(store, articleId,
                   [f \in DOMAIN payload \cap {"title", "content", "category", "status"}
                      |-> payload[f]], dbUp)
  IN [store |-> updated.store,
      response |-> IF updated.error = "none"
                   THEN ApiSuccess(200, "Article updated successfully.",
                                   mapToResponseData(updated.article))
                   ELSE ApiError(500, ARTICLE_UPDATE_ERROR_MESSAGE)]

\* ArticlesService.remove after its checks: the soft delete and its response
service_remove_write(store, articleId, now, dbUp) ==
  LET deleted == repository_softDelete(store, articleId, now, dbUp)
  IN [store |-> deleted.store,
      response |-> IF deleted.error = "none"
                   THEN ApiSuccess(204, "Article deleted successfully.", Null)
                   ELSE ApiError(500, ARTICLE_DELETE_ERROR_MESSAGE)]

\* ArticlesService.findAllByAuthor
service_findAllByAuthor(store, authorId) ==
  LET found == repository_findByAuthor(store, authorId)
  IN ApiSuccess(200, "Articles retrieved successfully.",
                [i \in 1..Len(found) |-> mapToResponseData(found[i])])

PAGE_MIN == 1
PAGE_DEFAULT == 1
SIZE_MIN == 1
SIZE_MAX == 100
SIZE_DEFAULT == 10

\* the messages of the violated rules of GetArticlesQueryDto, page and size
\* being the integers the transform produced
GetArticlesQueryErrors(query) ==
  (IF Has(query, "page") /\ query.page < PAGE_MIN
   THEN {"page must be at least 1."} ELSE {})
  \cup (IF Has(query, "size") /\ query.size < SIZE_MIN
        THEN {"size must be at least 1."} ELSE {})
  \cup (IF Has(query, "size") /\ query.size > SIZE_MAX
        THEN {"size must not exceed 100."} ELSE {})

\* the options ArticlesService.findPublished hands to the repository: the
\* filters of the query, q as search, page and size with the defaults of the DTO
FeedOptions(query) ==
  [f \in (DOMAIN query \cap {"category", "author"})
        \cup (IF Has(query, "q") THEN {"search"} ELSE {})
        \cup {"page", "size"} |->
     IF f = "search" THEN query.q
     ELSE IF f = "page" THEN (IF Has(query, "page") THEN query.page ELSE PAGE_DEFAULT)
     ELSE IF f = "size" THEN (IF Has(query, "size") THEN query.size ELSE SIZE_DEFAULT)
     ELSE query[f]]

\* ArticlesService.findPublished: { articles, pagination } of the repository's page
service_findPublished(store, userTable, query) ==
  LET found == repository_findPublished(store, userTable, FeedOptions(query))
  IN ApiSuccess(200, "Articles retrieved successfully.",
                [articles |-> [i \in 1..Len(found.items) |->
                                 mapToResponseData(found.items[i])],
                 pagination |-> [page |-> found.page, size |-> found.size,
                                 total |-> found.total,
                                 totalPages |-> found.totalPages]])

----------------------------------------------------------------------------
(* Article requests the model submits *)

TITLE_1 == <<"N", "e", "w", "s">>
TITLE_2 == <<"J", "a", "z", "z">>

CreateBodies ==
  {[title |-> TITLE_1, content |-> "c1", category |-> "Tech", status |-> "Published"],
   [title |-> TITLE_2, content |-> "c2", category |-> "Life"]}

UpdateBodies ==
  {[title |-> TITLE_2, category |-> "Life", status |-> "Draft"],
   [status |-> "Archived"]}

\* ids a request may name: those the table can hold
ArticleIds == 1..MaxArticles

\* req.user of an authenticated request: the payload of a token login issues
Sessions(store) ==
  {[sub |-> u.id, role |-> mapPrismaRoleToApiRole(u.role)] : u \in store}

\* the user table after the signups of an author and of a reader
SeedUsers ==
  LET first == SignupPersist({},
                 TransformSignup(Signup(<<"J", "o">>, EMAIL_a, PASSWORD_1, STR_author)),
                 "k", TRUE).store
  IN SignupPersist(first,
       TransformSignup(Signup(<<"A", "l">>, EMAIL_b, PASSWORD_2, STR_reader)),
       "m", TRUE).store

SentArticle(op, request, response) ==
  [op |-> op, request |-> request, status |-> response.status, body |-> response.body]

\* the clock after a read of it: time moves on until MaxTime
Tick(t) == IF t < MaxTime THEN t + 1 ELSE t

InitArticles ==
  /\ users = SeedUsers
  /\ articles = {}
  /\ clock = 1
  /\ req = [s \in Slots |-> Idle]
  /\ resp = NoResponse

----------------------------------------------------------------------------
(* /articles *)

\* POST /articles: ValidationPipe, ArticlesController.create, ArticlesService.create
ArticleCreate(s) ==
  /\ s = FreeSlot
  /\ Cardinality(articles) < MaxArticles
  /\ \E user \in Sessions(users), body \in CreateBodies, dbUp \in BOOLEAN :
       LET errors == CreateArticleValidationErrors(body)
           request == [user |-> user, body |-> body]
       IN IF errors # {}
          THEN /\ resp' = SentArticle("create", request,
                     [status |-> 400, body |-> [Success |-> FALSE, Errors |-> errors]])
               /\ UNCHANGED articles
          ELSE LET done == service_create(articles, user.sub, body, dbUp)
               IN /\ articles' = done.store
                  /\ resp' = SentArticle("create", request, done.response)
  /\ UNCHANGED <<users, clock, req>>

\* GET /articles/:id: ArticlesController.findOne, ArticlesService.findOne
ArticleFindOne(s) ==
  /\ s = FreeSlot
  /\ \E user \in Sessions(users), id \in ArticleIds :
       resp' = SentArticle("findOne", [user |-> user, articleId |-> id],
                           service_findOne(articles, id, user.sub))
  /\ UNCHANGED <<users, articles, clock, req>>

\* PUT /articles/:id up to the end of the checks of ArticlesService.update
ArticleUpdateCheck(s) ==
  /\ s = FreeSlot
  /\ \E user \in Sessions(users), id \in ArticleIds, body \in UpdateBodies :
       LET errors == UpdateArticleValidationErrors(body)
           request == [user |-> user, articleId |-> id, body |-> body]
           denied == ArticleAccess(articles, id, user.sub)
       IN IF errors # {}
          THEN /\ resp' = SentArticle("update", request,
                     [status |-> 400, body |-> [Success |-> FALSE, Errors |-> errors]])
               /\ req' = req
          ELSE IF denied # Null
               THEN /\ resp' = SentArticle("update", request, denied)
                    /\ req' = req
               ELSE /\ req' = [req EXCEPT ![s] =
                                 [op |-> "update", user |-> user, articleId |-> id,
                                  body |-> body]]
                    /\ resp' = NoResponse
  /\ UNCHANGED <<users, articles, clock>>

\* ArticlesService.update from the write on
ArticleUpdateWrite(s) ==
  /\ req[s].op = "update"
  /\ \E dbUp \in BOOLEAN :
       LET done == service_update_write(articles, req[s].articleId, req[s].body, dbUp)
       IN /\ articles' = done.store
          /\ resp' = SentArticle("update",
                       [user |-> req[s].user, articleId |-> req[s].articleId,
                        body |-> req[s].body], done.response)
  /\ req' = [req EXCEPT ![s] = Idle]
  /\ UNCHANGED <<users, clock>>

\* DELETE /articles/:id up to the end of the checks of ArticlesService.remove
ArticleRemoveCheck(s) ==
  /\ s = FreeSlot
  /\ \E user \in Sessions(users), id \in ArticleIds :
       LET request == [user |-> user, articleId |-> id]
           denied == ArticleAccess(articles, id, user.sub)
       IN IF denied # Null
          THEN /\ resp' = SentArticle("remove", request, denied)
               /\ req' = req
          ELSE /\ req' = [req EXCEPT ![s] =
                            [op |-> "remove", user |-> user, articleId |-> id]]
               /\ resp' = NoResponse
  /\ UNCHANGED <<users, articles, clock>>

\* ArticlesService.remove from the soft delete on
ArticleRemoveWrite(s) ==
  /\ req[s].op = "remove"
  /\ \E dbUp \in BOOLEAN :
       LET done == service_remove_write(articles, req[s].articleId, clock, dbUp)
       IN /\ articles' = done.store
          /\ clock' = Tick(clock)
          /\ resp' = SentArticle("remove",
                       [user |-> req[s].user, articleId |-> req[s].articleId],
                       done.response)
  /\ req' = [req EXCEPT ![s] = Idle]
  /\ UNCHANGED users

NextArticles ==
  \E s \in Slots :
    \/ ArticleCreate(s)
    \/ ArticleFindOne(s)
    \/ ArticleUpdateCheck(s)
    \/ ArticleUpdateWrite(s)
    \/ ArticleRemoveCheck(s)
    \/ ArticleRemoveWrite(s)

SpecArticles == InitArticles /\ [][NextArticles]_vars

----------------------------------------------------------------------------
(* The public feed and the author's list, over tables the article routes
   leave behind *)

\* rows of the largest table the feed is asked about
MaxFeedArticles == 2
\* largest page and size the feed is asked for
MaxPage == 2
MaxSize == 2

EMAIL_c == <<"c", "@", "x", ".", "y">>
NAME_John == <<"J", "o", "h", "n">>
NAME_Joanna == <<"J", "o", "a", "n", "n", "a">>
NAME_Al == <<"A", "l">>

\* the user table after the signups of John, Joanna and Al
FeedUsers ==
  LET first == SignupPersist({},
                 TransformSignup(Signup(NAME_John, EMAIL_a, PASSWORD_1, STR_author)),
                 "k", TRUE).store
      second == SignupPersist(first,
                  TransformSignup(Signup(NAME_Joanna, EMAIL_b, PASSWORD_2, STR_author)),
                  "m", TRUE).store
  IN SignupPersist(second,
       TransformSignup(Signup(NAME_Al, EMAIL_c, PASSWORD_1, STR_reader)),
       "k", TRUE).store

\* what create, update and remove leave in a row besides its id and createdAt
FeedRowKinds ==
  {[title |-> TITLE_1, content |-> "c1", category |-> "Tech",
    status |-> "Published", authorId |-> 1, deletedAt |-> NULL_DATE],
   [title |-> TITLE_2, content |-> "c2", category |-> "Life",
    status |-> "Published", authorId |-> 2, deletedAt |-> NULL_DATE],
   [title |-> TITLE_1, content |-> "c3", category |-> "Tech",
    status |-> "Draft", authorId |-> 1, deletedAt |-> NULL_DATE],
   [title |-> TITLE_2, content |-> "c2", category |-> "Tech",
    status |-> "Published", authorId |-> 3, deletedAt |-> NULL_DATE],
   [title |-> TITLE_1, content |-> "c1", category |-> "Tech",
    status |-> "Published", authorId |-> 1, deletedAt |-> 1]}

\* the table whose i-th inserted row is of kind kinds[i]
FeedTable(kinds) ==
  {[id |-> i, title |-> kinds[i].title, content |-> kinds[i].content,
    category |-> kinds[i].category, status |-> kinds[i].status,
    authorId |-> kinds[i].authorId, createdAt |-> i,
    deletedAt |-> kinds[i].deletedAt] : i \in DOMAIN kinds}

FeedTables ==
  UNION {{FeedTable(kinds) : kinds \in [1..n -> FeedRowKinds]} :
           n \in 0..MaxFeedArticles}

FeedQueries ==
  {[page |-> p, size |-> z] : p \in 1..MaxPage, z \in 1..MaxSize}
  \cup {[category |-> ""],
        [category |-> "Tech"],
        [category |-> "tech"],
        [author |-> <<"j", "O">>],
        [q |-> <<"E", "W">>],
        [category |-> "Tech", author |-> <<"j", "o">>, q |-> <<"n", "e">>, size |-> 1],
        [category |-> "Life", author |-> <<>>, q |-> <<>>],
        [page |-> 0, size |-> 101]}

FeedUpdateBodies == {[status |-> "Published"], [status |-> "Draft"]}

InitFeed ==
  /\ users = FeedUsers
  /\ articles \in FeedTables
  /\ clock = IF \E a \in articles : a.deletedAt # NULL_DATE THEN Tick(1) ELSE 1
  /\ req = [s \in Slots |-> Idle]
  /\ resp = NoResponse

\* GET /articles: ValidationPipe, ArticlesController.findPublished
FindPublished ==
  /\ \E query \in FeedQueries :
       LET errors == GetArticlesQueryErrors(query)
       IN resp' = SentArticle("findPublished", [query |-> query],
                    IF errors # {}
                    THEN [status |-> 400,
                          body |-> [Success |-> FALSE, Errors |-> errors]]
                    ELSE service_findPublished(articles, users, query))
  /\ UNCHANGED <<users, articles, clock, req>>

\* GET /articles/me: ArticlesController.findAll
FindAllByAuthor ==
  /\ \E user \in Sessions(users) :
       resp' = SentArticle("findAll", [user |-> user],
                           service_findAllByAuthor(articles, user.sub))
  /\ UNCHANGED <<users, articles, clock, req>>

\* PUT /articles/:id handled with no other request in between
ArticleUpdateAlone ==
  /\ \E user \in Sessions(users), id \in 1..MaxFeedArticles,
        body \in FeedUpdateBodies, dbUp \in BOOLEAN :
       LET request == [user |-> user, articleId |-> id, body |-> body]
           errors == UpdateArticleValidationErrors(body)
           denied == ArticleAccess(articles, id, user.sub)
           done == service_update_write(articles, id, body, dbUp)
       IN IF errors # {}
          THEN /\ resp' = SentArticle("update", request,
                     [status |-> 400, body |-> [Success |-> FALSE, Errors |-> errors]])
               /\ articles' = articles
          ELSE IF denied # Null
               THEN /\ resp' = SentArticle("update", request, denied)
                    /\ articles' = articles
               ELSE /\ resp' = SentArticle("update", request, done.response)
                    /\ articles' = done.store
  /\ UNCHANGED <<users, clock, req>>

NextFeed == FindPublished \/ FindAllByAuthor \/ ArticleUpdateAlone

SpecFeed == InitFeed /\ [][NextFeed]_vars

----------------------------------------------------------------------------
(* GlobalExceptionFilter *)

\* a thrown value is [kind |-> "HttpException", status, response],
\* [kind |-> "Error", text] or [kind |-> "other"]; the response of an
\* HttpException is [type |-> "string", text], [type |-> "array", items] or
\* [type |-> "object", body], body holding the properties the object has; a
\* property that may be null or hold values of several types is tagged:
\* Errors is [isNull |-> TRUE] or [isNull |-> FALSE, items], message is
\* [type |-> "string", text], [type |-> "array", items] or [type |-> "number"]

FilterBody(message, errors) ==
  [Success |-> FALSE, Message |-> message, Object |-> Null, Errors |-> errors]

\* GlobalExceptionFilter.catch: the status and the JSON body it sends
GlobalExceptionFilter_catch(exception) ==
  LET defaultMessage == "Internal server error"
      defaultErrors == <<"An unexpected error occurred.">>
  IN IF exception.kind = "HttpException"
     THEN LET exceptionResponse == exception.response
              res == exceptionResponse.body
          IN IF exceptionResponse.type = "object"
             THEN IF Has(res, "Success") /\ res.Success = FALSE
                  THEN LET message == IF Has(res, "Message") /\ res.Message # ""
                                      THEN res.Message ELSE "Error occurred"
                       IN [status |-> exception.status,
                           body |-> FilterBody(message,
                                      IF Has(res, "Errors") /\ ~res.Errors.isNull
                                      THEN res.Errors.items ELSE <<message>>)]
                  ELSE IF Has(res, "message") /\ res.message.type = "string"
                       THEN [status |-> exception.status,
                             body |-> FilterBody(res.message.text, <<res.message.text>>)]
                       ELSE IF Has(res, "message") /\ res.message.type = "array"
                            THEN [status |-> exception.status,
                                  body |-> FilterBody("Validation failed",
                                                      res.message.items)]
                            ELSE [status |-> exception.status,
                                  body |-> FilterBody(defaultMessage, defaultErrors)]
             ELSE IF exceptionResponse.type = "array"
                  THEN [status |-> exception.status,
                        body |-> FilterBody(defaultMessage, defaultErrors)]
                  ELSE [status |-> exception.status,
                        body |-> FilterBody(exceptionResponse.text,
                                            <<exceptionResponse.text>>)]
     ELSE IF exception.kind = "Error"
          THEN LET message == "An unexpected error occurred. Please try again later."
               IN [status |-> 500, body |-> FilterBody(message, <<message>>)]
          ELSE [status |-> 500, body |-> FilterBody(defaultMessage, defaultErrors)]

\* the object with the given properties among Success, Message, Errors, message
ResponseObject(given, success, text, errors, message) ==
  [f \in given |->
     IF f = "Success" THEN success
     ELSE IF f = "Message" THEN text
     ELSE IF f = "Errors" THEN errors
     ELSE message]

ThrownTexts == {"", "Article not found."}

ThrownErrors ==
  {[isNull |-> TRUE], [isNull |-> FALSE, items |-> <<>>],
   [isNull |-> FALSE, items |-> <<"Email already exists.">>]}

ThrownMessages ==
  {[type |-> "string", text |-> ""],
   [type |-> "string", text |-> "Cannot GET /x"],
   [type |-> "array", items |-> <<"name is required.", "email is required.">>],
   [type |-> "number"]}

\* what getResponse() of a thrown HttpException may be
ThrownResponses ==
  {[type |-> "string", text |-> t] : t \in {"", "Forbidden"}}
  \cup {[type |-> "array", items |-> <<"a", "b">>]}
  \cup {[type |-> "object",
         body |-> ResponseObject(given, success, text, errors, message)] :
          given \in {{}, {"Success"}, {"Success", "Message"}, {"Success", "Errors"},
                     {"Success", "Message", "Errors"}, {"message"},
                     {"Success", "message"}},
          success \in BOOLEAN, text \in ThrownTexts, errors \in ThrownErrors,
          message \in ThrownMessages}

HttpStatuses == {400, 404}

\* the values a handler, a pipe or the framework may throw
ThrownValues ==
  {[kind |-> "HttpException", status |-> status, response |-> response] :
     status \in HttpStatuses, response \in ThrownResponses}
  \cup {[kind |-> "Error", text |-> "database unavailable"], [kind |-> "other"]}

----------------------------------------------------------------------------
(* GetArticlesQueryDto: page and size as they arrive in the query string *)

DIGITS == <<"0", "1", "2", "3", "4", "5", "6", "7", "8", "9">>

DigitValue(c) == (CHOOSE i \in 1..10 : DIGITS[i] = c) - 1

\* the number the decimal digits denote
RECURSIVE DecimalValue(_)
DecimalValue(digits) ==
  IF digits = <<>> THEN 0
  ELSE 10 * DecimalValue(SubSeq(digits, 1, Len(digits) - 1))
       + DigitValue(digits[Len(digits)])

\* String.prototype.trimStart
trimStart(s) ==
  LET keep == {i \in 1..Len(s) : ~IsSpace(s[i])}
  IN IF keep = {} THEN <<>>
     ELSE SubSeq(s, CHOOSE i \in keep : \A j \in keep : i <= j, Len(s))

NaN == [isNaN |-> TRUE]

\* parseInt(value, 10): leading whitespace is skipped, a sign is read, then as
\* many decimal digits as there are; what follows them is ignored; NaN when
\* there is no digit
parseInt(value) ==
  LET text == trimStart(value)
      signed == text # <<>> /\ text[1] \in {"-", "+"}
      rest == IF signed THEN Tail(text) ELSE text
      count == IF \E i \in 1..Len(rest) : ~IsDigit(rest[i])
               THEN (CHOOSE i \in 1..Len(rest) :
                       /\ ~IsDigit(rest[i])
                       /\ \A j \in 1..(i - 1) : IsDigit(rest[j])) - 1
               ELSE Len(rest)
      magnitude == DecimalValue(SubSeq(rest, 1, count))
  IN IF count = 0 THEN NaN
     ELSE [isNaN |-> FALSE,
           value |-> IF signed /\ text[1] = "-" THEN 0 - magnitude ELSE magnitude]

\* class-transformer applies the @Transform of page and size when the query
\* has them
TransformQuery(raw) ==
  [f \in DOMAIN raw |-> IF f \in {"page", "size"} THEN parseInt(raw[f]) ELSE raw[f]]

\* the query with the numbers page and size were parsed to
NumbersOf(parsed) ==
  [f \in {g \in DOMAIN parsed : g \in {"page", "size"} => ~parsed[g].isNaN} |->
     IF f \in {"page", "size"} THEN parsed[f].value ELSE parsed[f]]

\* the messages of the violated rules of page and size: NaN is no integer and
\* passes neither @Min nor @Max
PageSizeMessages(parsed) ==
  (IF Has(parsed, "page") /\ parsed.page.isNaN
   THEN {"page must be an integer.", "page must be at least 1."} ELSE {})
  \cup (IF Has(parsed, "size") /\ parsed.size.isNaN
        THEN {"size must be an integer.", "size must be at least 1.",
              "size must not exceed 100."} ELSE {})
  \cup GetArticlesQueryErrors(NumbersOf(parsed))

QUERY_RULE_MESSAGES ==
  <<"page must be an integer.", "page must be at least 1.",
    "size must be an integer.", "size must be at least 1.",
    "size must not exceed 100.">>

\* page and size as query strings: integers inside and outside the limits,
\* numbers with a fraction or a suffix, and texts that are no number
PageTexts ==
  {<<"1">>, <<"2">>, <<"0">>, <<"-", "1">>, <<"2", ".", "5">>,
   <<"7", "a", "b", "c">>, <<"a", "b", "c">>, <<>>}

SizeTexts ==
  {<<"1">>, <<"1", "0", "0">>, <<"1", "0", "1">>, <<"0">>, <<"-", "5">>,
   <<"1", ".", "9">>, <<"x">>}

RawQueries ==
  {[category |-> "Tech"]}
  \cup {[page |-> page] : page \in PageTexts}
  \cup {[size |-> size] : size \in SizeTexts}
  \cup {[page |-> page, size |-> size] : page \in PageTexts, size \in SizeTexts}

----------------------------------------------------------------------------
(* POST /auth/signup through the ValidationPipe and the exception filter, one
   request at a time *)

\* the messages of the rules of SignupDto, in the order of its properties and
\* decorators
SIGNUP_RULE_MESSAGES ==
  <<"name is required.",
    "name must contain only alphabets and single spaces.",
    "name must not exceed 120 characters.",
    "email is required.",
    "email must be a valid email address.",
    "email must not exceed 320 characters.",
    "password is required.",
    "password must be at least 8 characters long.",
    "password must not exceed 72 characters for bcrypt compatibility.",
    "password must contain at least one uppercase letter.",
    "password must contain at least one lowercase letter.",
    "password must contain at least one number.",
    "password must contain at least one special character.",
    "role is required.",
    "role must be either 'Author' or 'Reader'.">>

SignupValidationMessages_firstOnly(dto) ==
  LET errors == SignupValidationErrors(dto)
  IN SubSeq(SelectSeq(SIGNUP_RULE_MESSAGES, LAMBDA m : m \in errors), 1, 1)

\* the message array of the ValidationPipe: the message of every violated
\* constraint of every property
SignupValidationMessages(dto) ==
  LET errors == SignupValidationErrors(dto)
  IN SelectSeq(SIGNUP_RULE_MESSAGES, LAMBDA m : m \in errors)

\* the BadRequestException the ValidationPipe throws
ValidationPipe_exception(messages) ==
  [kind |-> "HttpException", status |-> 400,
   response |-> [type |-> "object",
                 body |-> [statusCode |-> 400, error |-> "Bad Request",
                           message |-> [type |-> "array", items |-> messages]]]]

\* the HttpException a service throws with a body { Success: false, Errors }
ServiceException(errorResponse) ==
  [kind |-> "HttpException", status |-> errorResponse.status,
   response |-> [type |-> "object",
                 body |-> [Success |-> FALSE,
                           Errors |-> [isNull |-> FALSE,
                                       items |-> errorResponse.body.Errors]]]]

\* an exception thrown while a request is handled is answered by the global
\* exception filter
HandleException(exception) == GlobalExceptionFilter_catch(exception)

NAME_Jo == <<"J", "o">>

\* names as submitted: one word, two words, and names with doubled, leading,
\* trailing and other whitespace, a digit, punctuation, or nothing
NameProbes ==
  {NAME_Jo,
   <<"J", "o", " ", "A", "l">>,
   <<"J", "o", " ", " ", "A", "l">>,
   <<"J", "o", " ", "\t", "A", "l">>,
   <<"J", "o", "\t", "A", "l">>,
   <<" ", "J", "o">>,
   <<"J", "o", " ">>,
   <<"J", "0">>,
   <<"J", "o", "-", "A", "l">>,
   <<"J", ".">>,
   <<" ">>,
   <<>>}

\* the password of the given length that repeats the given characters in turn
PasswordOf(chars, length) ==
  [i \in 1..length |-> chars[((i - 1) % Len(chars)) + 1]]

\* one character of each class a password rule names
PasswordClassChars == <<"A", "b", "1", "!">>

PasswordLengths == (PASSWORD_MIN_LENGTH - 1)..(PASSWORD_MIN_LENGTH + 1)

\* passwords made of every choice of classes, one character short of the
\* minimum, at it and over it; passwords of all classes at the maximum and
\* over it; other special characters; no password
PasswordProbes ==
  {PasswordOf(SelectSeq(PasswordClassChars, LAMBDA c : c \in classes), length) :
     classes \in (SUBSET {"A", "b", "1", "!"}) \ {{}}, length \in PasswordLengths}
  \cup {PasswordOf(PasswordClassChars, length) :
          length \in {PASSWORD_MAX_LENGTH, PASSWORD_MAX_LENGTH + 1}}
  \cup {PasswordOf(<<"A", "b", "1", special>>, PASSWORD_MIN_LENGTH) :
          special \in {" ", "_", "@"}}
  \cup {<<>>}

STR_admin == <<"a", "d", "m", "i", "n">>

\* signup bodies: each name and each password in an otherwise valid body, and
\* bodies that break the rules of several properties at once
SignupProbes ==
  {Signup(name, EMAIL_a, PASSWORD_1, STR_author) : name \in NameProbes}
  \cup {Signup(NAME_Jo, EMAIL_a, password, STR_author) : password \in PasswordProbes}
  \cup {Signup(name, email, password, STR_admin) :
          name \in {<<"1", "2", "3">>, <<>>},
          email \in {<<"x">>, EMAIL_a},
          password \in {<<"w", "e", "a", "k">>, PasswordOf(<<"b">>, PASSWORD_MIN_LENGTH)}}

InitSignupRules ==
  /\ users = {}
  /\ articles = {}
  /\ clock = 1
  /\ req = [s \in Slots |-> Idle]
  /\ resp = NoResponse

\* POST /auth/signup handled with no other request in between
SignupAlone ==
  /\ \E raw \in SignupProbes :
       LET dto == TransformSignup(raw)
           messages == SignupValidationMessages(dto)
       IN IF messages # <<>>
          THEN /\ resp' = SentArticle("signup", raw,
                            HandleException(ValidationPipe_exception(messages)))
               /\ users' = users
          ELSE IF SignupEmailTaken(users, dto)
               THEN /\ resp' = SentArticle("signup", raw,
                          HandleException(ServiceException(buildEmailConflictException)))
                    /\ users' = users
               ELSE \E salt \in Salts, dbUp \in BOOLEAN :
                      LET done == SignupPersist(users, dto, salt, dbUp)
                      IN /\ resp' = SentArticle("signup", raw,
                                IF done.response.status = 201 THEN done.response
                                ELSE HandleException(ServiceException(done.response)))
                         /\ users' = done.store
  /\ UNCHANGED <<articles, clock, req>>

NextSignupRules == SignupAlone

SpecSignupRules == InitSignupRules /\ [][NextSignupRules]_vars

----------------------------------------------------------------------------
(* The exception filter and the query pipe applied to the values they are
   handed *)

InitShaping ==
  /\ users = {}
  /\ articles = {}
  /\ clock = 1
  /\ req = [s \in Slots |-> Idle]
  /\ resp = NoResponse

\* an exception reaches GlobalExceptionFilter.catch
Catch ==
  /\ \E exception \in ThrownValues :
       resp' = SentArticle("catch", exception, GlobalExceptionFilter_catch(exception))
  /\ UNCHANGED <<users, articles, clock, req>>

\* GET /articles with page and size as text: ValidationPipe, then
\* ArticlesController.findPublished
GetArticles ==
  /\ \E raw \in RawQueries :
       LET parsed == TransformQuery(raw)
           errors == PageSizeMessages(parsed)
       IN resp' = SentArticle("getArticles", [query |-> raw],
                    IF errors # {}
                    THEN HandleException(ValidationPipe_exception(
                           SelectSeq(QUERY_RULE_MESSAGES, LAMBDA m : m \in errors)))
                    ELSE service_findPublished(articles, users, NumbersOf(parsed)))
  /\ UNCHANGED <<users, articles, clock, req>>

NextShaping == Catch \/ GetArticles

SpecShaping == InitShaping /\ [][NextShaping]_vars

----------------------------------------------------------------------------
(* Winston redaction format: a log record is a graph of objects and arrays
   held by reference, so that one object can be reached twice or contain
   itself *)

\* the object count of a log record
MaxLogObjects == 3

LogAddresses == 1..MaxLogObjects

\* the alternatives of SENSITIVE_FIELD_PATTERN, api[-_]?key written out
SENSITIVE_FIELD_WORDS ==
  { <<"p", "a", "s", "s", "w", "o", "r", "d">>,
    <<"s", "e", "c", "r", "e", "t">>,
    <<"t", "o", "k", "e", "n">>,
    <<"a", "u", "t", "h", "o", "r", "i", "z", "a", "t", "i", "o", "n">>,
    <<"a", "p", "i", "k", "e", "y">>,
    <<"a", "p", "i", "-", "k", "e", "y">>,
    <<"a", "p", "i", "_", "k", "e", "y">>,
    <<"c", "o", "o", "k", "i", "e">>,
    <<"s", "e", "t", "-", "c", "o", "o", "k", "i", "e">>,
    <<"j", "w", "t">> }

SENSITIVE_FIELD_PATTERN_test_caseSensitive(key) ==
  \E word \in SENSITIVE_FIELD_WORDS : Contains(key, word)

\* SENSITIVE_FIELD_PATTERN.test(key): unanchored, flag i
SENSITIVE_FIELD_PATTERN_test(key) ==
  LET lowered == toLowerCase(key)
  IN \E word \in SENSITIVE_FIELD_WORDS : Contains(lowered, word)

Primitive(text) == [type |-> "primitive", text |-> text]

Reference(address) == [type |-> "object", address |-> address]

REDACTED == Primitive("[REDACTED]")

RECURSIVE redactSensitiveData(_, _, _)
RECURSIVE redactArrayEntries(_, _, _, _)
RECURSIVE redactObjectEntries(_, _, _, _, _)

\* redactSensitiveData(value, visited): heap is the memory the references
\* point into; the result is the memory and the visited set after the call
redactSensitiveData(heap, value, visited) ==
  IF value.type # "object"
  THEN [heap |-> heap, visited |-> visited]
  ELSE IF value.address \in visited
  THEN [heap |-> heap, visited |-> visited]
  ELSE LET seen == visited \cup {value.address}
           target == heap[value.address]
       IN IF target.isArray
          THEN redactArrayEntries(heap, value.address, 1, seen)
          ELSE redactObjectEntries(heap, value.address, target.entries, 1, seen)

\* value.forEach((entry) => redactSensitiveData(entry, visited))
redactArrayEntries(heap, address, i, visited) ==
  IF i > Len(heap[address].entries)
  THEN [heap |-> heap, visited |-> visited]
  ELSE LET done == redactSensitiveData(heap, heap[address].entries[i].value, visited)
       IN redactArrayEntries(done.heap, address, i + 1, done.visited)

\* for (const [key, entry] of Object.entries(value)): entries is the list as
\* it was when the loop began
redactObjectEntries(heap, address, entries, i, visited) ==
  IF i > Len(entries)
  THEN [heap |-> heap, visited |-> visited]
  ELSE IF SENSITIVE_FIELD_PATTERN_test(entries[i].key)
  THEN redactObjectEntries(
         [heap EXCEPT ![address].entries[i].value = REDACTED],
         address, entries, i + 1, visited)
  ELSE LET done == redactSensitiveData(heap, entries[i].value, visited)
       IN redactObjectEntries(done.heap, address, entries, i + 1, done.visited)

\* redactionFormat: info is the object at address 1
redactionFormat(heap) == redactSensitiveData(heap, Reference(1), {}).heap

KEY_password == <<"p", "a", "s", "s", "w", "o", "r", "d">>
KEY_AuthToken == <<"A", "u", "t", "h", "T", "o", "k", "e", "n">>
KEY_name == <<"n", "a", "m", "e">>
KEY_meta == <<"m", "e", "t", "a">>

LogValues == {Primitive("v")} \cup {Reference(a) : a \in LogAddresses}

Entry(key, value) == [key |-> key, value |-> value]

\* { password, meta }, { AuthToken, name }, { meta, password }: keys in
\* insertion order, one of the two values possibly another object
LogObjectShapes ==
  { [isArray |-> FALSE, entries |-> <<Entry(KEY_password, Primitive("v")), Entry(KEY_meta, x)>>]
      : x \in LogValues }
  \cup
  { [isArray |-> FALSE, entries |-> <<Entry(KEY_AuthToken, x), Entry(KEY_name, Primitive("v"))>>]
      : x \in LogValues }
  \cup
  { [isArray |-> FALSE, entries |-> <<Entry(KEY_meta, x), Entry(KEY_password, Primitive("v"))>>]
      : x \in LogValues }

LogArrayShapes ==
  { [isArray |-> TRUE, entries |-> <<Entry(<<"0">>, Primitive("v")), Entry(<<"1">>, x)>>]
      : x \in LogValues }

\* info itself is an object; what it refers to is an object or an array
LogRecords ==
  { heap \in [LogAddresses -> LogObjectShapes \cup LogArrayShapes] : ~heap[1].isArray }

InitLogging ==
  /\ users = {}
  /\ articles = {}
  /\ clock = 1
  /\ req \in { [s \in Slots |-> IF s = 1 THEN [op |-> "log", info |-> heap] ELSE Idle]
                 : heap \in LogRecords }
  /\ resp = NoResponse

\* the transport's format chain reaches redactionFormat
Redact(s) ==
  /\ req[s].op = "log"
  /\ resp' = [op |-> "log", request |-> req[s].info, status |-> 0,
              body |-> redactionFormat(req[s].info)]
  /\ req' = [req EXCEPT ![s] = Idle]
  /\ UNCHANGED <<users, articles, clock>>

NextLogging == \E s \in Slots : Redact(s)

SpecLogging == InitLogging /\ [][NextLogging]_vars

----------------------------------------------------------------------------
(* GET /articles with the two queries of ArticlesRepository.findPublished as
   separate reads of the table *)

\* this.prisma.article.findMany({ where, orderBy, skip, take })
prisma_article_findMany(store, userTable, options) ==
  SkipTake(newestFirst(FeedWhere(store, userTable, options)),
           (options.page - 1) * options.size, options.size)

\* this.prisma.article.count({ where })
prisma_article_count(store, userTable, options) ==
  Cardinality(FeedWhere(store, userTable, options))

\* what ArticlesRepository.findPublished returns and ArticlesService.findPublished
\* makes of it once Promise.all has both results
FeedResponse(items, total, options) ==
  ApiSuccess(200, "Articles retrieved successfully.",
             [articles |-> [i \in 1..Len(items) |-> mapToResponseData(items[i])],
              pagination |-> [page |-> options.page, size |-> options.size,
                              total |-> total,
                              totalPages |-> totalPages(total, options.size)]])

PagedQueries == {[page |-> p, size |-> z] : p \in 1..MaxPage, z \in 1..MaxSize}

Pending == [done |-> FALSE]

\* GET /articles up to Promise.all: both queries are issued, neither has run;
\* one such request at a time
FindPublishedStart(s) ==
  /\ s = FreeSlot
  /\ \A other \in Slots : req[other] = Idle
  /\ \E query \in PagedQueries :
       req' = [req EXCEPT ![s] = [op |-> "findPublished", query |-> query,
                                  items |-> Pending, total |-> Pending]]
  /\ resp' = NoResponse
  /\ UNCHANGED <<users, articles, clock>>

\* the response once both results are there
FindPublishedSettled(s, items, total) ==
  /\ resp' = SentArticle("findPublished", [query |-> req[s].query],
                         FeedResponse(items, total, FeedOptions(req[s].query)))
  /\ req' = [req EXCEPT ![s] = Idle]

\* findMany reads the table
FindPublishedFindMany(s) ==
  /\ req[s].op = "findPublished"
  /\ ~req[s].items.done
  /\ LET rows == prisma_article_findMany(articles, users, FeedOptions(req[s].query))
     IN IF req[s].total.done
        THEN FindPublishedSettled(s, rows, req[s].total.value)
        ELSE /\ req' = [req EXCEPT ![s].items = [done |-> TRUE, value |-> rows]]
             /\ resp' = NoResponse
  /\ UNCHANGED <<users, articles, clock>>

\* count reads the table
FindPublishedCount(s) ==
  /\ req[s].op = "findPublished"
  /\ ~req[s].total.done
  /\ LET total == prisma_article_count(articles, users, FeedOptions(req[s].query))
     IN IF req[s].items.done
        THEN FindPublishedSettled(s, req[s].items.value, total)
        ELSE /\ req' = [req EXCEPT ![s].total = [done |-> TRUE, value |-> total]]
             /\ resp' = NoResponse
  /\ UNCHANGED <<users, articles, clock>>

\* the tables of John's articles, none of them deleted
InitFeedQueries ==
  /\ users = FeedUsers
  /\ articles \in
       UNION {{FeedTable(kinds) :
                 kinds \in [1..n -> {k \in FeedRowKinds :
                                       k.authorId = 1 /\ k.deletedAt = NULL_DATE}]} :
              n \in 0..MaxFeedArticles}
  /\ clock = 1
  /\ req = [s \in Slots |-> Idle]
  /\ resp = NoResponse

\* PUT /articles/:id by John, handled with no other request in between
ArticleUpdateByOwner ==
  /\ \E user \in {u \in Sessions(users) : u.sub = 1}, id \in 1..MaxFeedArticles,
        body \in FeedUpdateBodies :
       LET request == [user |-> user, articleId |-> id, body |-> body]
           errors == UpdateArticleValidationErrors(body)
           denied == ArticleAccess(articles, id, user.sub)
           done == service_update_write(articles, id, body, TRUE)
       IN IF errors # {}
          THEN /\ resp' = SentArticle("update", request,
                     [status |-> 400, body |-> [Success |-> FALSE, Errors |-> errors]])
               /\ articles' = articles
          ELSE IF denied # Null
               THEN /\ resp' = SentArticle("update", request, denied)
                    /\ articles' = articles
               ELSE /\ resp' = SentArticle("update", request, done.response)
                    /\ articles' = done.store
  /\ UNCHANGED <<users, clock, req>>

NextFeedQueries ==
  \/ \E s \in Slots :
       \/ FindPublishedStart(s)
       \/ FindPublishedFindMany(s)
       \/ FindPublishedCount(s)
  \/ ArticleUpdateByOwner

SpecFeedQueries == InitFeedQueries /\ [][NextFeedQueries]_vars

----------------------------------------------------------------------------
(* ResponseInterceptor (the one with isApiResponse) applied to what a handler
   returns; JavaScript values carry their type *)

JsUndefined == [type |-> "undefined"]
JsNull == [type |-> "null"]
JsString(text) == [type |-> "string", text |-> text]
JsNumber(number) == [type |-> "number", number |-> number]
JsBoolean(flag) == [type |-> "boolean", flag |-> flag]
JsArray == [type |-> "array"]
JsObject(fields) == [type |-> "object", fields |-> fields]

\* value?.name
Get(value, name) ==
  IF value.type = "object" /\ name \in DOMAIN value.fields
  THEN value.fields[name]
  ELSE JsUndefined

\* !value
Falsy(value) ==
  \/ value.type \in {"undefined", "null"}
  \/ value = JsBoolean(FALSE)
  \/ value = JsNumber(0)
  \/ value = JsString("")

\* left ?? right
Coalesce(left, right) == IF left.type \in {"undefined", "null"} THEN right ELSE left

\* isApiResponse(data)
isApiResponse(data) ==
  IF Falsy(data) \/ data.type \notin {"object", "array"}
  THEN FALSE
  ELSE /\ Get(data, "Success").type = "boolean"
       /\ data.type = "object"
       /\ {"Message", "Object", "Errors"} \cap DOMAIN data.fields # {}

ResponseInterceptor_intercept_alwaysWraps(data) ==
  JsObject([Success |-> JsBoolean(TRUE),
            Message |-> Coalesce(Get(data, "message"), JsString("Success")),
            Object |-> Coalesce(Coalesce(Get(data, "data"), data), JsNull),
            Errors |-> JsNull])

\* ResponseInterceptor.intercept: the function given to map
ResponseInterceptor_intercept(data) ==
  IF ~Falsy(Get(data, "__isPaginated")) \/ isApiResponse(data)
  THEN data
  ELSE JsObject([Success |-> JsBoolean(TRUE),
                 Message |-> Coalesce(Get(data, "message"), JsString("Success")),
                 Object |-> Coalesce(Coalesce(Get(data, "data"), data), JsNull),
                 Errors |-> JsNull])

Absent == [type |-> "absent"]

\* the object with the properties that are not Absent
ObjectOf(properties) ==
  JsObject([name \in {n \in DOMAIN properties : properties[n] # Absent} |->
              properties[name]])

ARTICLE_DATA == JsObject([id |-> JsNumber(1)])

\* what a handler returns: nothing, a primitive, an array, or an object with
\* some of Success, Message, Object, Errors, __isPaginated, message and data
HandlerResults ==
  {JsUndefined, JsNull, JsString(""), JsString("ok"), JsNumber(0), JsNumber(7),
   JsBoolean(FALSE), JsBoolean(TRUE), JsArray}
  \cup
  { ObjectOf([Success |-> success, Message |-> text, Object |-> object,
              Errors |-> errors, __isPaginated |-> flag, message |-> message,
              data |-> data]) :
      success \in {Absent, JsBoolean(TRUE), JsBoolean(FALSE), JsString("yes")},
      text \in {Absent, JsString("Done")},
      object \in {Absent, JsNull, ARTICLE_DATA},
      errors \in {Absent, JsNull},
      flag \in {Absent, JsBoolean(TRUE), JsBoolean(FALSE)},
      message \in {Absent, JsNull, JsString("Saved")},
      data \in {Absent, JsNull, JsNumber(0), ARTICLE_DATA, JsArray} }

InitIntercept ==
  /\ users = {}
  /\ articles = {}
  /\ clock = 1
  /\ req \in { [s \in Slots |-> IF s = 1 THEN [op |-> "handler", data |-> data] ELSE Idle]
                 : data \in HandlerResults }
  /\ resp = NoResponse

\* next.handle() emits the handler's result and map applies the function
Intercept(s) ==
  /\ req[s].op = "handler"
  /\ LET shaped == ResponseInterceptor_intercept(req[s].data)
     IN /\ resp' = [op |-> "intercept", request |-> [data |-> req[s].data],
                    status |-> 200, body |-> shaped]
        /\ req' = [req EXCEPT ![s] = [op |-> "shaped", data |-> shaped]]
  /\ UNCHANGED <<users, articles, clock>>

\* the function applied to what it returned
InterceptAgain(s) ==
  /\ req[s].op = "shaped"
  /\ resp' = [op |-> "interceptAgain", request |-> [data |-> req[s].data],
              status |-> 200, body |-> ResponseInterceptor_intercept(req[s].data)]
  /\ req' = [req EXCEPT ![s] = Idle]
  /\ UNCHANGED <<users, articles, clock>>

NextIntercept == \E s \in Slots : Intercept(s) \/ InterceptAgain(s)

SpecIntercept == InitIntercept /\ [][NextIntercept]_vars

----------------------------------------------------------------------------
(* Claims about signup and login, checked under Spec *)

\* the address a signup body designates, whatever its case and padding
AddressOf(rawEmail) == toLowerCase(trim(rawEmail))

ConflictBody == [Success |-> FALSE, Errors |-> <<"Email already exists.">>]

\* a slot whose signup finishes in this step
SignupFinishes(s) == req[s].op = "signup" /\ req'[s] = Idle

\* C1: in every reachable state no two stored users have the same email, also
\* when signups for one address interleave between existence check and insert.
C1_EmailUnique ==
  \A u1 \in users : \A u2 \in users : u1.email = u2.email => u1 = u2

\* a signup is past its existence check and its address has been taken meanwhile
C1_Witness ==
  \E s \in Slots :
    /\ req[s].op = "signup"
    /\ \E u \in users : u.email = req[s].payload.email

\* C2: a signup that passed the existence check and finds its address taken at
\* the insert ends with the conflict of the pre-check (409, 'Email already
\* exists.'), never with 500; a signup returns the created user only by inserting
\* the one row of its address, so at most one signup per address succeeds.
C2_RaceIsConflict ==
  [][\A s \in Slots : SignupFinishes(s) =>
        LET taken == \E u \in users : u.email = AddressOf(req[s].raw.email)
        IN /\ (taken /\ resp'.storeError # "P1001") =>
                /\ resp'.status = 409 /\ resp'.body = ConflictBody
                /\ users' = users
           /\ resp'.status = 500 => resp'.storeError = "P1001"
           /\ resp'.status = 201 =>
                /\ ~taken
                /\ Cardinality(users') = Cardinality(users) + 1
                /\ \E u \in users' : /\ u.email = AddressOf(req[s].raw.email)
                                     /\ u.id = resp'.body.Data.id]_vars

\* the insert of a raced signup was refused by the store and answered 409
C2_Witness ==
  /\ resp.op = "signup"
  /\ resp.storeError = "P2002"
  /\ resp.status = 409

\* C3: a signup whose address, after trimming and lower-casing, is the email of a
\* stored user is rejected with 409, without a call of the store's create and
\* without a change of the user table; no such signup gets past the check.
C3_DuplicateRejected ==
  [][/\ \A s \in Slots :
          (req[s] = Idle /\ req'[s].op = "signup") =>
            ~\E u \in users : u.email = AddressOf(req'[s].raw.email)
     /\ (/\ resp'.op = "signup"
         /\ resp' # resp
         /\ \A s \in Slots : ~SignupFinishes(s)
         /\ resp'.status # 400
         /\ \E u \in users : u.email = AddressOf(resp'.request.email)) =>
          /\ resp'.status = 409 /\ resp'.body = ConflictBody
          /\ resp'.createCalls = 0
          /\ users' = users]_vars

\* the second spelling of a stored address was refused at the existence check
C3_Witness ==
  /\ resp.op = "signup"
  /\ resp.request.email = EMAIL_A_padded
  /\ resp.status = 409
  /\ resp.createCalls = 0
  /\ \E u \in users : u.email = EMAIL_a

\* C4: after a successful signup the stored password is a hash that verifies
\* against the submitted password and differs from it, and the returned user has
\* the fields id, name, email and role only.
C4_PasswordHashed ==
  (resp.op = "signup" /\ resp.status = 201) =>
    /\ DOMAIN resp.body.Data = {"id", "name", "email", "role"}
    /\ \E u \in users :
         /\ u.id = resp.body.Data.id
         /\ u.email = resp.body.Data.email
         /\ bcryptCompare(resp.request.password, u.password)
         /\ u.password # resp.request.password

C4_Witness ==
  /\ resp.op = "signup"
  /\ resp.status = 201
  /\ resp.request.password = PASSWORD_2

\* C5: a signup asking for author is stored and returned as author, one asking
\* for reader as reader.
C5_RolePreserved ==
  (resp.op = "signup" /\ resp.status = 201) =>
    LET asked == toLowerCase(trim(resp.request.role))
    IN \E u \in users :
         /\ u.id = resp.body.Data.id
         /\ u.role = (IF asked = STR_author THEN "AUTHOR" ELSE "READER")
         /\ toLowerCase(resp.body.Data.role) = asked

\* C6: a login with an unknown email and a login with a stored email and a wrong
\* password get the same answer: 401 and 'Invalid email or password.'.
C6_SameFailure ==
  (/\ resp.op = "login"
   /\ \E u \in users : /\ u.email = resp.request.email
                       /\ ~bcryptCompare(resp.request.password, u.password)) =>
    /\ resp.status = 401
    /\ resp.body = [Success |-> FALSE, Errors |-> <<"Invalid email or password.">>]
    /\ \A payload \in LoginPayloads : \A signOk \in BOOLEAN :
         (~\E u \in users : u.email = payload.email) =>
           LET other == LoginOutcome(users, payload, signOk).response
           IN other.status = resp.status /\ other.body = resp.body

\* a login with a stored email and a wrong password was answered 401
C6_Witness ==
  /\ resp.op = "login"
  /\ resp.status = 401
  /\ \E u \in users : u.email = resp.request.email

\* C7: the token signer is called only for a stored user whose hash matches the
\* submitted password, and an issued token carries that user's id as sub and
\* that user's role.
C7_TokenOnlyForValidCredentials ==
  resp.op = "login" =>
    LET valid == \E u \in users : /\ u.email = resp.request.email
                                  /\ bcryptCompare(resp.request.password, u.password)
    IN /\ resp.signCalls > 0 => valid
       /\ resp.body.Success =>
            /\ resp.signCalls = 1
            /\ \E u \in users :
                 /\ u.email = resp.request.email
                 /\ bcryptCompare(resp.request.password, u.password)
                 /\ resp.body.Data.accessToken.payload =
                      [sub |-> u.id,
                       role |-> IF u.role = "AUTHOR" THEN STR_author ELSE STR_reader]

C7_Witness ==
  /\ resp.op = "login"
  /\ resp.body.Success
  /\ resp.body.Data.accessToken.payload.sub = 2

----------------------------------------------------------------------------
(* Claims about article access, checked under SpecArticles *)

ArticleRequestFinishes(s) == req[s].op \in {"update", "remove"} /\ req'[s] = Idle

ArticleRequestAdmitted(s) == req[s] = Idle /\ req'[s].op \in {"update", "remove"}

VisibleArticle(id) == \E a \in articles : a.id = id /\ a.deletedAt = NULL_DATE

VisibleArticleOfOther(id, who) ==
  \E a \in articles : a.id = id /\ a.deletedAt = NULL_DATE /\ a.authorId # who

\* C8: findOne, update and remove answer 404 exactly when no non-deleted
\* article has the id, whoever asks, and 403 exactly when a non-deleted article
\* has the id and belongs to someone else; a request goes past the checks only
\* for a non-deleted article of the requester
C8_NotFoundBeforeForbidden ==
  [][/\ (/\ resp'.op \in {"findOne", "update", "remove"}
         /\ resp'.status # 400
         /\ \A s \in Slots : ~ArticleRequestFinishes(s))
        => LET id == resp'.request.articleId
               who == resp'.request.user.sub
           IN /\ (resp'.status = 404) <=> ~VisibleArticle(id)
              /\ (resp'.status = 403) <=> VisibleArticleOfOther(id, who)
              /\ (resp'.status = 200) <=>
                   (VisibleArticle(id) /\ ~VisibleArticleOfOther(id, who))
     /\ \A s \in Slots :
          ArticleRequestAdmitted(s)
            => /\ VisibleArticle(req'[s].articleId)
               /\ ~VisibleArticleOfOther(req'[s].articleId, req'[s].user.sub)]_vars

\* a soft-deleted article of another author was asked for and the answer was 404
C8_Witness ==
  /\ resp.op = "findOne"
  /\ resp.status = 404
  /\ \E a \in articles :
       /\ a.id = resp.request.articleId
       /\ a.deletedAt # NULL_DATE
       /\ a.authorId # resp.request.user.sub

\* C9: a row changes only in the write of an update or remove whose requester
\* is the row's authorId, and an update or remove asked by anyone else is
\* answered with a failure, is not admitted to its write and leaves the table
\* as it was
C9_OnlyOwnerMutates ==
  [][/\ \A a \in articles :
          a \notin articles'
            => \E s \in Slots :
                 /\ ArticleRequestFinishes(s)
                 /\ req[s].articleId = a.id
                 /\ req[s].user.sub = a.authorId
     /\ \A s \in Slots :
          ArticleRequestAdmitted(s)
            => \E a \in articles :
                 a.id = req'[s].articleId /\ a.authorId = req'[s].user.sub
     /\ (/\ resp'.op \in {"update", "remove"}
         /\ resp' # resp
         /\ ~\E a \in articles :
               a.id = resp'.request.articleId /\ a.authorId = resp'.request.user.sub)
        => /\ resp'.status \in {400, 403, 404}
           /\ articles' = articles
           /\ req' = req]_vars

\* an update or remove of another author's article was refused
C9_Witness ==
  /\ resp.op \in {"update", "remove"}
  /\ resp.status = 403
  /\ \E a \in articles :
       /\ a.id = resp.request.articleId
       /\ a.authorId # resp.request.user.sub
       /\ a.deletedAt = NULL_DATE

\* C10: every article in the table was created by a user whose role is author,
\* and a create, update or remove succeeds only for a requester whose role is
\* author
C10_ReadersCannotManage ==
  /\ \A a \in articles :
       \E u \in users : u.id = a.authorId /\ u.role = "AUTHOR"
  /\ (resp.op \in {"create", "update", "remove"} /\ resp.status \in {200, 201, 204})
       => resp.request.user.role = STR_author

\* C11: the authorId of an article is the sub of the requester of the create
\* that stored it, and every step keeps the authorId of every stored article
C11_OwnershipImmutable ==
  [][/\ \A a \in articles :
          \E b \in articles' : b.id = a.id /\ b.authorId = a.authorId
     /\ \A b \in articles' :
          (~\E a \in articles : a.id = b.id)
            => /\ resp'.op = "create"
               /\ resp'.status = 201
               /\ b.authorId = resp'.request.user.sub
               /\ resp'.body.Object.authorId = b.authorId]_vars

\* an article was updated and then soft-deleted and still belongs to the user
\* who created it
C11_Witness ==
  \E a \in articles :
    /\ a.title = TITLE_2
    /\ a.deletedAt # NULL_DATE
    /\ \E u \in users : u.id = a.authorId

----------------------------------------------------------------------------
(* Claims about what the reads return *)

ValidFeedQueries == {query \in FeedQueries : GetArticlesQueryErrors(query) = {}}

\* the ids of the articles of a response, in the order of the response
ListedIds(listed) == [i \in DOMAIN listed |-> listed[i].id]

IdsOf(listed) == {listed[i].id : i \in DOMAIN listed}

\* C12: in every state, an article whose deletedAt is set is in no author's
\* list, findOne on it answers 404 for every requester, and the feed, asked
\* without a filter or for the article's category, neither lists it nor counts
\* it, whatever its status
C12_DeletedStaysHidden ==
  \A a \in articles :
    a.deletedAt # NULL_DATE
      => /\ \A user \in Sessions(users) :
              /\ a.id \notin IdsOf(service_findAllByAuthor(articles, user.sub).body.Object)
              /\ service_findOne(articles, a.id, user.sub).status = 404
         /\ \A query \in {[category |-> ""], [category |-> a.category]} :
              LET feed == service_findPublished(articles, users, query).body.Object
                  without == service_findPublished(articles \ {a}, users, query).body.Object
              IN /\ a.id \notin IdsOf(feed.articles)
                 /\ feed.pagination.total = without.pagination.total

\* a remove has just succeeded on a published article
C12_Witness ==
  /\ resp.op = "remove"
  /\ resp.status = 204
  /\ \E a \in articles :
       /\ a.id = resp.request.articleId
       /\ a.deletedAt # NULL_DATE
       /\ a.status = "Published"

\* the ids the feed lists when asked for its first page of the largest size
FeedIds(store) ==
  IdsOf(service_findPublished(store, users,
                              [page |-> 1, size |-> SIZE_MAX]).body.Object.articles)

\* C13: every item the feed returns, filtered or not, is a stored article
\* that is published and not deleted; a draft is not in the feed; an update
\* that publishes a draft puts it in the feed and an update that sets a
\* published article back to draft takes it out
C13_FeedOnlyPublished ==
  [][/\ (resp'.op = "findPublished" /\ resp'.status = 200)
          => \A i \in DOMAIN resp'.body.Object.articles :
               LET item == resp'.body.Object.articles[i]
               IN /\ item.status = "Published"
                  /\ item.deletedAt = NULL_DATE
                  /\ \E a \in articles' :
                       /\ a.id = item.id
                       /\ a.status = "Published"
                       /\ a.deletedAt = NULL_DATE
     /\ \A a \in articles : a.status = "Draft" => a.id \notin FeedIds(articles)
     /\ \A a \in articles, b \in articles' :
          a.id = b.id
            => /\ (a.status = "Draft" /\ b.status = "Published")
                    => b.id \in FeedIds(articles')
               /\ (a.status = "Published" /\ b.status = "Draft")
                    => /\ a.deletedAt = NULL_DATE => a.id \in FeedIds(articles)
                       /\ b.id \notin FeedIds(articles')]_vars

\* an article stored as a draft has been published by an update and is in the
\* feed
C13_Witness ==
  /\ resp.op = "update"
  /\ resp.status = 200
  /\ resp.request.body.status = "Published"
  /\ \E a \in articles :
       /\ a.id = resp.request.articleId
       /\ a.content = "c3"
       /\ a.status = "Published"
       /\ a.id \in FeedIds(articles)

\* part occurs in text when the case of letters is ignored
HasInfixIgnoringCase(text, part) ==
  \E start \in 0..(Len(text) - Len(part)) :
    \A j \in 1..Len(part) :
      toLowerCaseChar(text[start + j]) = toLowerCaseChar(part[j])

\* the article passes every filter the query supplies
PassesFilters(a, query) ==
  /\ (Has(query, "category") /\ query.category # "") => a.category = query.category
  /\ (Has(query, "author") /\ query.author # <<>>)
       => \E u \in users :
            u.id = a.authorId /\ HasInfixIgnoringCase(u.name, query.author)
  /\ (Has(query, "q") /\ query.q # <<>>) => HasInfixIgnoringCase(a.title, query.q)

\* C14: the feed's filters are conjunctive: every item has exactly the
\* category asked for, an author whose name contains the author text ignoring
\* case and a title that contains q ignoring case; total is the number of
\* published, non-deleted articles passing all supplied filters; an omitted or
\* empty filter restricts nothing
C14_FiltersConjunctive ==
  (resp.op = "findPublished" /\ resp.status = 200)
    => LET query == resp.request.query
           feed == resp.body.Object
       IN /\ \A i \in DOMAIN feed.articles : PassesFilters(feed.articles[i], query)
          /\ feed.pagination.total =
               Cardinality({a \in articles :
                              /\ a.status = "Published"
                              /\ a.deletedAt = NULL_DATE
                              /\ PassesFilters(a, query)})

\* a query with all three filters found one article and left out another
\* published one
C14_Witness ==
  /\ resp.op = "findPublished"
  /\ resp.status = 200
  /\ Has(resp.request.query, "category")
  /\ Has(resp.request.query, "author")
  /\ Has(resp.request.query, "q")
  /\ resp.request.query.author # <<>>
  /\ resp.body.Object.pagination.total = 1
  /\ Len(resp.body.Object.articles) = 1
  /\ \E a \in articles :
       /\ a.status = "Published"
       /\ a.deletedAt = NULL_DATE
       /\ a.id \notin IdsOf(resp.body.Object.articles)

\* the published, non-deleted articles that pass the query's filters
Matching(query) ==
  {a \in articles :
     /\ a.status = "Published"
     /\ a.deletedAt = NULL_DATE
     /\ PassesFilters(a, query)}

\* C15: totalPages is the ceiling of total / size (3 for 25 by 10, 0 for no
\* match); the items are the positions (page - 1) * size .. page * size - 1 of
\* the matching articles ordered newest first, at most size of them; a page
\* beyond totalPages has no items and the same total
C15_Pagination ==
  /\ totalPages(25, 10) = 3
  /\ totalPages(0, 10) = 0
  /\ (resp.op = "findPublished" /\ resp.status = 200)
       => LET query == resp.request.query
              page == IF Has(query, "page") THEN query.page ELSE PAGE_DEFAULT
              size == IF Has(query, "size") THEN query.size ELSE SIZE_DEFAULT
              feed == resp.body.Object
              meta == feed.pagination
              before == (page - 1) * size
              left == Cardinality(Matching(query)) - before
          IN /\ meta.page = page
             /\ meta.size = size
             /\ meta.total = Cardinality(Matching(query))
             /\ meta.totalPages * size >= meta.total
             /\ (meta.totalPages - 1) * size < meta.total
             /\ (meta.total = 0) => (meta.totalPages = 0)
             /\ Len(feed.articles) <= size
             /\ Len(feed.articles) =
                  IF left <= 0 THEN 0 ELSE IF left < size THEN left ELSE size
             /\ \A i \in DOMAIN feed.articles :
                  /\ feed.articles[i].id \in {a.id : a \in Matching(query)}
                  /\ Cardinality({a \in Matching(query) :
                                    a.createdAt > feed.articles[i].createdAt})
                       = before + i - 1
             /\ (page > meta.totalPages) => (feed.articles = <<>>)

\* the second page of size one holds the older of two published articles
C15_Witness ==
  /\ resp.op = "findPublished"
  /\ resp.status = 200
  /\ resp.request.query = [page |-> 2, size |-> 1]
  /\ resp.body.Object.pagination.total = 2
  /\ resp.body.Object.pagination.totalPages = 2
  /\ Len(resp.body.Object.articles) = 1
  /\ \E a \in articles :
       /\ a.status = "Published"
       /\ a.deletedAt = NULL_DATE
       /\ a.createdAt > resp.body.Object.articles[1].createdAt

----------------------------------------------------------------------------
(* Claims about what the writes store, checked under SpecArticles *)

\* C16: a create whose body has a valid title, content and category and no
\* status is not rejected by validation and, when it succeeds, stores an
\* article with status Draft, the requester as authorId and deletedAt null;
\* a supplied status is the stored one
C16_CreateDefaultsToDraft ==
  (/\ resp.op = "create"
   /\ Has(resp.request.body, "title") /\ resp.request.body.title # <<>>
   /\ Has(resp.request.body, "content") /\ resp.request.body.content # ""
   /\ Has(resp.request.body, "category") /\ resp.request.body.category # ""
   /\ Has(resp.request.body, "status") => resp.request.body.status \in ArticleStatus)
    => /\ resp.status # 400
       /\ resp.status = 201 =>
            \E a \in articles :
              /\ a.id = resp.body.Object.id
              /\ a.status = IF Has(resp.request.body, "status")
                            THEN resp.request.body.status ELSE "Draft"
              /\ a.authorId = resp.request.user.sub
              /\ a.deletedAt = NULL_DATE

\* C17: a successful update sets the fields of the payload among title,
\* content, category and status to the payload's values and leaves the other
\* ones, the article's id, authorId, createdAt and deletedAt, and every other
\* article as they were
C17_UpdateSetsOnlyPayload ==
  [][(resp'.op = "update" /\ resp'.status = 200)
       => LET id == resp'.request.articleId
              body == resp'.request.body
          IN /\ \E old \in articles : \E new \in articles' :
                  /\ old.id = id
                  /\ new.id = id
                  /\ \A f \in {"title", "content", "category", "status"} :
                       new[f] = IF Has(body, f) THEN body[f] ELSE old[f]
                  /\ new.authorId = old.authorId
                  /\ new.createdAt = old.createdAt
                  /\ new.deletedAt = old.deletedAt
                  /\ resp'.body.Object = new
             /\ {a \in articles : a.id # id} = {b \in articles' : b.id # id}
             /\ {a.id : a \in articles} = {b.id : b \in articles'}
             /\ Cardinality(articles') = Cardinality(articles)]_vars

\* an update of the status alone went through on Joanna's article, next to
\* another article
C17_Witness ==
  /\ resp.op = "update"
  /\ resp.status = 200
  /\ DOMAIN resp.request.body = {"status"}
  /\ \E a \in articles :
       /\ a.id = resp.request.articleId
       /\ a.status = "Draft"
       /\ a.title = TITLE_2
       /\ a.content = "c2"
       /\ a.category = "Life"
       /\ \E b \in articles : b.id # a.id

----------------------------------------------------------------------------
(* Claims about the author's list, checked under SpecFeed *)

\* C19: the list of an author holds exactly the stored articles of that author
\* whose deletedAt is null, drafts and published ones alike, each once and none
\* of another author, ordered by createdAt descending
C19_OwnListExact ==
  (resp.op = "findAll")
    => LET listed == resp.body.Object
           author == resp.request.user.sub
           own == {a \in articles : a.authorId = author /\ a.deletedAt = NULL_DATE}
       IN /\ resp.status = 200
          /\ {listed[i] : i \in DOMAIN listed} = own
          /\ Len(listed) = Cardinality(own)
          /\ \A i \in DOMAIN listed : \A j \in DOMAIN listed :
               i < j => listed[i].createdAt >= listed[j].createdAt

\* an author's list holds a draft and a published article, the newer one first
C19_Witness ==
  /\ resp.op = "findAll"
  /\ resp.status = 200
  /\ Len(resp.body.Object) = 2
  /\ resp.body.Object[1].status # resp.body.Object[2].status
  /\ resp.body.Object[1].createdAt > resp.body.Object[2].createdAt

----------------------------------------------------------------------------
(* Claims about unexpected failures of signup and login, checked under Spec *)

\* C20: a signup whose insert fails with anything but a unique-constraint
\* violation, and a login whose token signing fails after the credentials were
\* verified, end with status 500 and the fixed generic message alone, which is
\* not the text of the underlying error, and return no success result
C20_FailuresAreGeneric ==
  /\ (resp.op = "signup" /\ resp.createCalls = 1
        /\ resp.storeError \notin {"none", "P2002"})
       => /\ resp.status = 500
          /\ resp.body = [Success |-> FALSE, Errors |-> <<SIGNUP_GENERIC_ERROR>>]
          /\ SIGNUP_GENERIC_ERROR # resp.storeError
  /\ (resp.op = "login" /\ resp.status = 500)
       => /\ resp.signCalls = 1
          /\ resp.body = [Success |-> FALSE, Errors |-> <<LOGIN_GENERIC_ERROR>>]
  /\ \A payload \in LoginPayloads :
       (\E u \in users : /\ u.email = payload.email
                         /\ bcryptCompare(payload.password, u.password))
         => LoginOutcome(users, payload, FALSE) =
              [response |-> [status |-> 500,
                             body |-> [Success |-> FALSE,
                                       Errors |-> <<LOGIN_GENERIC_ERROR>>]],
               signCalls |-> 1]

\* the insert of a signup failed with an error that is no unique-constraint
\* violation, with a user already stored
C20_Witness ==
  /\ resp.op = "signup"
  /\ resp.createCalls = 1
  /\ resp.storeError = "P1001"
  /\ resp.status = 500
  /\ users # {}

----------------------------------------------------------------------------
(* Claims about the shaping of responses, checked under SpecShaping *)

----------------------------------------------------------------------------
(* Claims about the rules of signup, checked under SpecSignupRules *)

\* the characters of a string
CharsOf(text) == {text[i] : i \in DOMAIN text}

AsciiLetters == CharsOf(UpperLetters) \cup CharsOf(LowerLetters)

\* the rules a signup body breaks, each with its message; name, email and role
\* are judged as the rules see them, trimmed
BrokenRuleMessages(raw) ==
  LET name == trim(raw.name)
      email == trim(raw.email)
      role == toLowerCase(trim(raw.role))
      password == raw.password
  IN (IF name = <<>> THEN {"name is required."} ELSE {})
     \cup (IF CharsOf(name) \subseteq AsciiLetters \cup {" ", "\t", "\n"} /\ name # <<>>
           THEN {} ELSE {"name must contain only alphabets and single spaces."})
     \cup (IF email = <<>> THEN {"email is required."} ELSE {})
     \cup (IF "@" \in CharsOf(email) /\ "." \in CharsOf(email)
           THEN {} ELSE {"email must be a valid email address."})
     \cup (IF password = <<>> THEN {"password is required."} ELSE {})
     \cup (IF Len(password) >= 8 THEN {}
           ELSE {"password must be at least 8 characters long."})
     \cup (IF CharsOf(password) \cap CharsOf(UpperLetters) # {} THEN {}
           ELSE {"password must contain at least one uppercase letter."})
     \cup (IF CharsOf(password) \cap CharsOf(LowerLetters) # {} THEN {}
           ELSE {"password must contain at least one lowercase letter."})
     \cup (IF CharsOf(password) \cap DigitChars # {} THEN {}
           ELSE {"password must contain at least one number."})
     \cup (IF CharsOf(password) \ (AsciiLetters \cup DigitChars) # {} THEN {}
           ELSE {"password must contain at least one special character."})
     \cup (IF role = <<>> THEN {"role is required."} ELSE {})
     \cup (IF role \in {STR_author, STR_reader} THEN {}
           ELSE {"role must be either 'Author' or 'Reader'."})

PasswordMessages ==
  {"password is required.",
   "password must be at least 8 characters long.",
   "password must not exceed 72 characters for bcrypt compatibility.",
   "password must contain at least one uppercase letter.",
   "password must contain at least one lowercase letter.",
   "password must contain at least one number.",
   "password must contain at least one special character."}

\* the signup was turned down because of its password
PasswordRejected ==
  /\ resp.status = 400
  /\ CharsOf(resp.body.Errors) \cap PasswordMessages # {}

\* at least 8 characters, with an uppercase letter, a lowercase letter, a digit
\* and a character that is neither a letter nor a digit
StrongPassword(password) ==
  /\ Len(password) >= 8
  /\ CharsOf(password) \cap CharsOf(UpperLetters) # {}
  /\ CharsOf(password) \cap CharsOf(LowerLetters) # {}
  /\ CharsOf(password) \cap DigitChars # {}
  /\ CharsOf(password) \ (AsciiLetters \cup DigitChars) # {}

\* C23 as stated: a signup's password is accepted exactly when it has at
\* least 8 characters and an uppercase letter, a lowercase letter, a digit and
\* a character that is neither a letter nor a digit
C23_PasswordRule ==
  (resp.op = "signup")
    => /\ PasswordRejected <=> ~StrongPassword(resp.request.password)
       /\ resp.status = 201 => StrongPassword(resp.request.password)

\* C23, amended: a signup's password is accepted exactly when it has at least
\* 8 and at most 72 characters and an uppercase letter, a lowercase letter, a
\* digit and a character that is neither a letter nor a digit; the user a
\* signup creates has a hash of that password
C23_PasswordRuleUpTo72 ==
  (resp.op = "signup")
    => LET password == resp.request.password
           accepted == StrongPassword(password) /\ Len(password) <= 72
       IN /\ PasswordRejected <=> ~accepted
          /\ resp.status = 201
               => /\ accepted
                  /\ \E u \in users : /\ u.id = resp.body.Data.id
                                      /\ bcryptCompare(password, u.password)

\* a signup with a password of 72 characters of all four classes created a user
C23_Witness ==
  /\ resp.op = "signup"
  /\ resp.status = 201
  /\ Len(resp.request.password) = 72
  /\ StrongPassword(resp.request.password)

\* the messages of the rules on the name
NameMessages ==
  {"name is required.",
   "name must contain only alphabets and single spaces.",
   "name must not exceed 120 characters."}

\* the signup was turned down because of its name
NameRejected ==
  /\ resp.status = 400
  /\ CharsOf(resp.body.Errors) \cap NameMessages # {}

Whitespace == {" ", "\t", "\n"}

\* one or more words of letters, each two separated by exactly one space
WordsBySingleSpaces(name) ==
  /\ name # <<>>
  /\ CharsOf(name) \subseteq AsciiLetters \cup {" "}
  /\ name[1] # " "
  /\ name[Len(name)] # " "
  /\ \A i \in 1..(Len(name) - 1) : name[i] = " " => name[i + 1] # " "

\* the name without its leading and trailing whitespace and with one space for
\* every run of whitespace inside it
Squeezed(name) ==
  LET kept == {i \in DOMAIN name :
                 \/ name[i] \notin Whitespace
                 \/ /\ i > 1
                    /\ name[i - 1] \notin Whitespace
                    /\ \E j \in (i + 1)..Len(name) : name[j] \notin Whitespace}
      at(k) == CHOOSE i \in kept : Cardinality({j \in kept : j <= i}) = k
  IN [k \in 1..Cardinality(kept) |->
        IF name[at(k)] \in Whitespace THEN " " ELSE name[at(k)]]

\* C24 as stated: a signup's name is accepted exactly when the submitted name
\* is made of letters and single spaces; a submitted name with a digit, a
\* punctuation character or two consecutive whitespace characters is rejected;
\* the stored name is the submitted one
C24_NameRule ==
  (resp.op = "signup")
    => /\ NameRejected <=> ~WordsBySingleSpaces(resp.request.name)
       /\ resp.status = 201
            => \E u \in users : /\ u.id = resp.body.Data.id
                                /\ u.name = resp.request.name

\* C24, amended: a signup's name is accepted exactly when the submitted name,
\* trimmed and with every run of whitespace replaced by one space, is made of
\* letters and single spaces; a submitted name with a digit or a punctuation
\* character is rejected; the stored name is the name so normalised
C24_NameRuleAfterNormalising ==
  (resp.op = "signup")
    => /\ NameRejected <=> ~WordsBySingleSpaces(Squeezed(resp.request.name))
       /\ (CharsOf(resp.request.name) \ (AsciiLetters \cup Whitespace) # {})
            => NameRejected
       /\ resp.status = 201
            => \E u \in users : /\ u.id = resp.body.Data.id
                                /\ u.name = Squeezed(resp.request.name)
                                /\ resp.body.Data.name = u.name
                                /\ WordsBySingleSpaces(u.name)

\* a signup whose name has two consecutive whitespace characters created a
\* user whose name has one space there
C24_Witness ==
  /\ resp.op = "signup"
  /\ resp.status = 201
  /\ \E i \in 1..(Len(resp.request.name) - 1) :
       /\ resp.request.name[i] \in Whitespace
       /\ resp.request.name[i + 1] \in Whitespace
  /\ \E u \in users : u.id = resp.body.Data.id /\ u.name = <<"J", "o", " ", "A", "l">>

\* the text is an integer in decimal notation
IntegerText(text) ==
  /\ text # <<>>
  /\ LET digits == IF text[1] = "-" THEN Tail(text) ELSE text
     IN /\ digits # <<>>
        /\ CharsOf(digits) \subseteq DigitChars

\* the integer the text denotes
IntegerOf(text) ==
  IF text[1] = "-" THEN 0 - DecimalValue(Tail(text)) ELSE DecimalValue(text)

\* C25: GET /articles accepts a query only when page is an integer of at
\* least 1 and size an integer from 1 to 100 and rejects any other value with
\* a validation error; an omitted page is 1 and an omitted size 10, so the
\* size of the page is never 0 or negative
C25_PageAndSizeChecked ==
  (resp.op = "getArticles")
    => LET query == resp.request.query
           pageOk == Has(query, "page") =>
                       IntegerText(query.page) /\ IntegerOf(query.page) >= 1
           sizeOk == Has(query, "size") =>
                       /\ IntegerText(query.size)
                       /\ IntegerOf(query.size) >= 1
                       /\ IntegerOf(query.size) <= 100
       IN /\ resp.status = 200 <=> (pageOk /\ sizeOk)
          /\ resp.status # 200 => (resp.status = 400 /\ resp.body.Success = FALSE)
          /\ resp.status = 200 =>
               /\ resp.body.Object.pagination.page =
                    IF Has(query, "page") THEN IntegerOf(query.page) ELSE 1
               /\ resp.body.Object.pagination.size =
                    IF Has(query, "size") THEN IntegerOf(query.size) ELSE 10
               /\ resp.body.Object.pagination.size >= 1

----------------------------------------------------------------------------
(* Claims about the log format, checked under SpecLogging *)

\* the words the claim lists, "api key" in its three spellings
SensitiveWords ==
  { <<"p", "a", "s", "s", "w", "o", "r", "d">>, <<"s", "e", "c", "r", "e", "t">>,
    <<"t", "o", "k", "e", "n">>,
    <<"a", "u", "t", "h", "o", "r", "i", "z", "a", "t", "i", "o", "n">>,
    <<"a", "p", "i", "k", "e", "y">>, <<"a", "p", "i", "-", "k", "e", "y">>,
    <<"a", "p", "i", "_", "k", "e", "y">>, <<"c", "o", "o", "k", "i", "e">>,
    <<"j", "w", "t">> }

\* some stretch of the key, letter case set aside, spells a sensitive word
NamesSensitive(key) ==
  LET small == [i \in 1..Len(key) |-> toLowerCaseChar(key[i])]
  IN \E word \in SensitiveWords :
       \E start \in 0..(Len(key) - Len(word)) :
         \A j \in 1..Len(word) : small[start + j] = word[j]

\* the places of a record: each entry of each object and array it holds
Places(heap) == {<<a, i>> : a \in DOMAIN heap, i \in 1..2}

RECURSIVE PartOfRecord(_, _)
\* the objects and arrays that can be reached from info by following values
PartOfRecord(heap, found) ==
  LET more == found \cup { heap[p[1]].entries[p[2]].value.address :
                             p \in { q \in Places(heap) :
                                       /\ q[1] \in found
                                       /\ heap[q[1]].entries[q[2]].value.type = "object" } }
  IN IF more = found THEN found ELSE PartOfRecord(heap, more)

\* C26: when a record has gone through the redaction format, every property of
\* the emitted record, at any depth and inside arrays, whose key contains one of
\* the sensitive words in any letter case holds "[REDACTED]"; every other
\* property and array element holds what it held before; and the traversal
\* ends with a result on records that contain themselves.
C26_SensitiveKeysRedacted ==
  resp.op = "log" =>
    LET before == resp.request
        after == resp.body
        emitted == PartOfRecord(after, {1})
    IN /\ DOMAIN after = DOMAIN before
       /\ \A p \in Places(before) :
            LET was == before[p[1]].entries[p[2]]
                is == after[p[1]].entries[p[2]]
                named == ~before[p[1]].isArray /\ NamesSensitive(was.key)
            IN /\ is.key = was.key
               /\ after[p[1]].isArray = before[p[1]].isArray
               /\ Len(after[p[1]].entries) = Len(before[p[1]].entries)
               /\ (named /\ p[1] \in emitted) => is.value = REDACTED
               /\ ~named => is.value = was.value

\* a record whose info holds an array that holds an object with a password,
\* and that object refers back to info
C26_Witness ==
  /\ resp.op = "log"
  /\ resp.request[1].entries[1].value = Reference(2)
  /\ resp.request[2].isArray
  /\ resp.request[2].entries[2].value = Reference(3)
  /\ resp.request[3].entries[1].key = KEY_password
  /\ resp.request[3].entries[2].value = Reference(1)
  /\ resp.body[3].entries[1].value = REDACTED
  /\ resp.body[1].entries[2].value = REDACTED

----------------------------------------------------------------------------
(* Claims about writes that interleave, checked under SpecArticles *)

\* C27: in every step an article whose deletedAt is set keeps that deletedAt,
\* and a remove that reports success (204) acted on an article that was not
\* yet deleted, so that of two removes of one article, the second behind the
\* first or both past the existence check, at most one reports success.
C27_DeletedAtFinal ==
  [][/\ \A a \in articles :
          a.deletedAt # NULL_DATE
            => \E b \in articles' : b.id = a.id /\ b.deletedAt = a.deletedAt
     /\ \A s \in Slots :
          (req[s].op = "remove" /\ req'[s] = Idle /\ resp'.status = 204)
            => \E a \in articles :
                 a.id = req[s].articleId /\ a.deletedAt = NULL_DATE]_vars

\* C28: the write of an update that finds its article soft-deleted (a remove
\* committed after the update's existence check) leaves the article's title,
\* content, category and status as they are and does not answer 200.
C28_UpdateSparesDeleted ==
  [][\A s \in Slots :
       (/\ req[s].op = "update"
        /\ req'[s] = Idle
        /\ \E a \in articles : a.id = req[s].articleId /\ a.deletedAt # NULL_DATE)
         => /\ resp'.status # 200
            /\ \A a \in articles :
                 a.id = req[s].articleId
                   => \E b \in articles' :
                        /\ b.id = a.id
                        /\ b.title = a.title
                        /\ b.content = a.content
                        /\ b.category = a.category
                        /\ b.status = a.status]_vars

----------------------------------------------------------------------------
(* Claims about the two queries of the feed, checked under SpecFeedQueries *)

\* C29: the total and the items of every answer of findPublished fit one state
\* of the table: the page holds as many items as a table with total matching
\* articles has at the positions of that page, so that every returned item is
\* among the counted ones, also when other requests write between the two
\* queries.
C29_TotalAndItemsAgree ==
  (resp.op = "findPublished" /\ resp.status = 200)
    => LET query == resp.request.query
           feed == resp.body.Object
           left == feed.pagination.total - (query.page - 1) * query.size
       IN Len(feed.articles)
            = (IF left <= 0 THEN 0 ELSE IF left < query.size THEN left ELSE query.size)

----------------------------------------------------------------------------
(* Claims about the response interceptor, checked under SpecIntercept *)

\* the result is an object that has the named property
Carries(result, name) == result.type = "object" /\ name \in DOMAIN result.fields

\* already in API response format: a boolean Success with Message, Object or
\* Errors
AlreadyFormatted(result) ==
  /\ Carries(result, "Success")
  /\ result.fields.Success \in {JsBoolean(TRUE), JsBoolean(FALSE)}
  /\ Carries(result, "Message") \/ Carries(result, "Object") \/ Carries(result, "Errors")

FlaggedPaginated(result) ==
  Carries(result, "__isPaginated") /\ result.fields.__isPaginated = JsBoolean(TRUE)

\* has a value other than null or undefined under the name
Gives(result, name) ==
  Carries(result, name) /\ result.fields[name] \notin {JsNull, JsUndefined}

====
